---------------------------- MODULE Spec2Model ----------------------------
(***************************************************************************)
(* A model of smartapi's routing facade (router.AddEndpoint, Route, With,  *)
(* Use, Handler), of its endpoint validator (checkHandler,                 *)
(* isLegacyHandler, the argument providers and the struct-tag binder) and  *)
(* of its request dispatcher (getCallAttributes, the response strategies   *)
(* and handleError).                                                       *)
(*                                                                         *)
(* Go values are modelled as follows.  A reflect.Type is a string naming   *)
(* the type; a handler is a record of its parameter and result types; an   *)
(* EndpointParam is a record whose kind names the Go type implementing it; *)
(* a struct tag is the sequence of its "="-separated tokens; a []Argument  *)
(* slice that the code appends to in place is a (backing array, length)    *)
(* pair over a heap of arrays, so that sharing is visible.                 *)
(***************************************************************************)
EXTENDS Integers, Sequences, FiniteSets, TLC

(***************************************************************************)
(* Bounds of the model.                                                    *)
(***************************************************************************)
MaxNodes == 2
MaxCopies == 1
MaxUse == 1
MaxEndpoints == 1
MaxSigNodes == 1
MaxSigEndpoints == 1
MaxServeEndpoints == 1
MaxReplyEndpoints == 1
MaxLegacyEndpoints == 1
MaxBodyEndpoints == 1
MaxConcEndpoints == 1
MaxAliasNodes == 3
MaxAliasEndpoints == 2
MaxFlights == 2

(***************************************************************************)
(* net/http status codes used by the code.                                 *)
(***************************************************************************)
StatusOK == 200
StatusAccepted == 202
StatusNoContent == 204
StatusMultiStatus == 207
StatusBadRequest == 400
StatusForbidden == 403
StatusInternalServerError == 500

(***************************************************************************)
(* endpointOptions: the flag bits of arguments.go, as a set of names.      *)
(***************************************************************************)
flagArgument == "flagArgument"
flagParsesQuery == "flagParsesQuery"
flagResponseStatus == "flagResponseStatus"
flagReadsRequestBody == "flagReadsRequestBody"
flagWritesResponse == "flagWritesResponse"
flagError == "flagError"

has(e, o) == o \in e

(***************************************************************************)
(* reflect.Type.  Struct types are named; "*" \o t is reflect.PtrTo(t).    *)
(***************************************************************************)
StructTypes ==
    {"T", "S1", "S2", "S3", "N1", "N2", "N3", "E1", "E2", "E3", "E4", "E5",
     "RH", "RC"}

PtrTo(t) == "*" \o t

Elem(t) ==
    CASE t = "*T" -> "T"
      [] t = "*S1" -> "S1"
      [] t = "*S2" -> "S2"
      [] t = "*S3" -> "S3"
      [] t = "*N1" -> "N1"
      [] t = "*N2" -> "N2"
      [] t = "*N3" -> "N3"
      [] t = "*E1" -> "E1"
      [] t = "*E2" -> "E2"
      [] t = "*E3" -> "E3"
      [] t = "*E4" -> "E4"
      [] t = "*E5" -> "E5"
      [] t = "*RH" -> "RH"
      [] t = "*RC" -> "RC"
      [] t = "*http.Request" -> "http.Request"
      [] OTHER -> ""

Kind(t) ==
    CASE t = "string" -> "String"
      [] t = "int" -> "Int"
      [] t \in {"[]byte", "[]string"} -> "Slice"
      [] t \in {"error", "interface{}", "context.Context", "io.Reader",
                "http.ResponseWriter", "smartapi.Headers",
                "smartapi.Cookies"} -> "Interface"
      [] t \in StructTypes \cup {"http.Request"} -> "Struct"
      [] Elem(t) # "" -> "Ptr"
      [] t = "func()" -> "Func"
      [] OTHER -> "Invalid"

errType == "error"
byteType == "[]byte"
byteSliceType == "[]byte"
readerType == "io.Reader"
ctxType == "context.Context"
headerSetterType == "smartapi.Headers"
cookieSetterType == "smartapi.Cookies"
responseWriterType == "http.ResponseWriter"
fullRequestType == "*http.Request"

\* reflect.Type.Implements for the two interfaces the code asks about
Implements(t, iface) ==
    CASE iface = errType -> t = "error"
      [] iface = ctxType -> t = "context.Context"
      [] OTHER -> FALSE

(***************************************************************************)
(* The fields of the struct types: name, smartapi tag (token sequence,     *)
(* <<>> when the field carries no tag) and Go type.                        *)
(***************************************************************************)
Fld(n, tag, t) == [name |-> n, tag |-> tag, type |-> t]

StructFields(t) ==
    CASE t = "T"  -> << Fld("Name", <<>>, "string") >>
      [] t = "S1" -> << Fld("Foo", <<"header", "X">>, "string"),
                        Fld("Body", <<"string_body">>, "string") >>
      [] t = "S2" -> << Fld("A", <<"string_body">>, "string"),
                        Fld("B", <<"byte_slice_body">>, "[]byte") >>
      [] t = "S3" -> << Fld("W", <<"response_writer">>, "http.ResponseWriter") >>
      [] t = "N1" -> << Fld("Pad", <<>>, "int"),
                        Fld("Inner", <<"request_struct">>, "*S1") >>
      [] t = "N2" -> << Fld("A", <<"request_struct">>, "*S1"),
                        Fld("B", <<"request_struct">>, "S1") >>
      [] t = "N3" -> << Fld("Deep", <<"request_struct">>, "N1") >>
      [] t = "E1" -> << Fld("Body", <<"string_body">>, "int") >>
      [] t = "E2" -> << Fld("Name", <<"header", "X">>, "string"),
                        Fld("Body", <<"non_existing_tag">>, "int") >>
      [] t = "E3" -> << Fld("Inner", <<"request_struct">>, "E1") >>
      [] t = "E4" -> << Fld("Pad", <<>>, "int"),
                        Fld("Inner", <<"request_struct">>, "*E2") >>
      [] t = "E5" -> << Fld("Deep", <<"request_struct">>, "E3") >>
      [] t = "RH" -> << Fld("Fill", <<>>, "int"),
                        Fld("Foo", <<"r_header", "X-Test1">>, "string") >>
      [] t = "RC" -> << Fld("Session", <<"r_cookie", "Test1">>, "string") >>
      [] OTHER -> << >>

(***************************************************************************)
(* EndpointParam values.  kind is the name of the implementing Go type.    *)
(***************************************************************************)
Param(kind, name) ==
    [kind |-> kind, name |-> name, typ |-> "", flags |-> {},
     arguments |-> << >>, status |-> 0]

NilArgument == Param("nil", "")

errorEndpointParam(err) == Param("errorEndpointParam", err)

Header(name) == Param("headerArgument", name)
RequiredHeader(name) == Param("requiredHeaderArgument", name)
URLParam(name) == Param("urlParamArgument", name)
QueryParam(name) == Param("queryParamArgument", name)
RequiredQueryParam(name) == Param("requiredQueryParamArgument", name)
PostQueryParam(name) == Param("postQueryParamArgument", name)
RequiredPostQueryParam(name) == Param("requiredPostQueryParamArgument", name)
Cookie(name) == Param("cookieArgument", name)
RequiredCookie(name) == Param("requiredCookieArgument", name)
StringBody == Param("stringBodyArgument", "")
ByteSliceBody == Param("byteSliceBodyArgument", "")
BodyReader == Param("bodyReaderArgument", "")
Context == Param("contextArgument", "")
ResponseHeaders == Param("headerSetterArgument", "")
ResponseCookies == Param("cookieSetterArgument", "")
ResponseWriter == Param("responseWriterArgument", "")
Request == Param("fullRequestArgument", "")
JSONBody(t) == [Param("jsonBodyArgument", "") EXCEPT !.typ = t]
JSONBodyDirect(t) == [Param("jsonBodyDirectArgument", "") EXCEPT !.typ = t]
ResponseStatus(s) == [Param("responseStatusArgument", "") EXCEPT !.status = s]

StringKinds ==
    {"headerArgument", "requiredHeaderArgument", "urlParamArgument",
     "queryParamArgument", "requiredQueryParamArgument",
     "postQueryParamArgument", "requiredPostQueryParamArgument",
     "cookieArgument", "requiredCookieArgument"}

RECURSIVE options(_)
options(a) ==
    CASE a.kind = "errorEndpointParam" -> {flagError}
      [] a.kind \in {"headerArgument", "requiredHeaderArgument",
                     "urlParamArgument", "contextArgument", "cookieArgument",
                     "requiredCookieArgument", "headerSetterArgument",
                     "cookieSetterArgument"} -> {flagArgument}
      [] a.kind \in {"jsonBodyArgument", "jsonBodyDirectArgument",
                     "stringBodyArgument", "byteSliceBodyArgument",
                     "bodyReaderArgument", "fullRequestArgument"} ->
             {flagArgument, flagReadsRequestBody}
      [] a.kind = "responseStatusArgument" -> {flagResponseStatus}
      [] a.kind \in {"queryParamArgument", "requiredQueryParamArgument",
                     "postQueryParamArgument",
                     "requiredPostQueryParamArgument"} ->
             {flagArgument, flagParsesQuery}
      [] a.kind = "responseWriterArgument" -> {flagArgument, flagWritesResponse}
      [] a.kind \in {"tagStructArgument", "tagStructDirectArgument"} -> a.flags
      [] a.kind \in {"asIntArgument", "asByteSliceArgument"} ->
             options(a.arguments[1])
      [] OTHER -> {}

\* checkArg returns the error's message, "" for a nil error
checkArg(a, arg) ==
    CASE a.kind \in StringKinds ->
             IF Kind(arg) # "String" THEN "expected a string type" ELSE ""
      [] a.kind = "jsonBodyArgument" ->
             IF PtrTo(a.typ) # arg THEN "invalid type" ELSE ""
      [] a.kind = "jsonBodyDirectArgument" ->
             IF a.typ # arg THEN "invalid type" ELSE ""
      [] a.kind = "stringBodyArgument" ->
             IF Kind(arg) # "String" THEN "expected string type" ELSE ""
      [] a.kind = "byteSliceBodyArgument" ->
             IF arg # byteSliceType THEN "expected a byte slice" ELSE ""
      [] a.kind = "bodyReaderArgument" ->
             IF arg # readerType THEN "expected io.Reader interface" ELSE ""
      [] a.kind = "contextArgument" ->
             IF Kind(arg) # "Interface" \/ ~Implements(arg, ctxType)
             THEN "expected context.Context" ELSE ""
      [] a.kind = "headerSetterArgument" ->
             IF arg # headerSetterType
             THEN "argument's type must be smartapi.Headers" ELSE ""
      [] a.kind = "cookieSetterArgument" ->
             IF arg # cookieSetterType
             THEN "argument's type must be smartapi.Cookies" ELSE ""
      [] a.kind = "responseWriterArgument" ->
             IF arg # responseWriterType
             THEN "argument's type must be http.ResponseWriter" ELSE ""
      [] a.kind = "fullRequestArgument" ->
             IF arg # fullRequestType
             THEN "argument's type must be *http.Request" ELSE ""
      [] a.kind = "tagStructArgument" ->
             IF Kind(arg) # "Ptr" THEN "argument must be a pointer"
             ELSE IF a.typ # Elem(arg) THEN "invalid argument type" ELSE ""
      [] a.kind = "tagStructDirectArgument" ->
             IF a.typ # arg THEN "invalid argument type" ELSE ""
      [] a.kind = "asIntArgument" ->
             IF Kind(arg) # "Int" THEN "argument must be an int" ELSE ""
      [] a.kind = "asByteSliceArgument" ->
             IF arg # byteSliceType THEN "argument must be a byte slice" ELSE ""
      [] OTHER -> "not an argument"

AsInt(param) ==
    IF ~has(options(param), flagArgument)
    THEN errorEndpointParam("AsInt() requires an argument param")
    ELSE IF checkArg(param, "string") # ""
    THEN errorEndpointParam("argument must accept a string")
    ELSE [Param("asIntArgument", "") EXCEPT !.arguments = <<param>>]

AsByteSlice(param) ==
    IF ~has(options(param), flagArgument)
    THEN errorEndpointParam("AsByteSlice() requires an argument param")
    ELSE IF checkArg(param, "string") # ""
    THEN errorEndpointParam("argument must accept a string")
    ELSE [Param("asByteSliceArgument", "") EXCEPT !.arguments = <<param>>]


(***************************************************************************)
(* The struct-tag binder.  A result is [err, arg]: err = "" is a nil error.*)
(***************************************************************************)
Ok(arg) == [err |-> "", arg |-> arg]
Fail(err) == [err |-> err, arg |-> NilArgument]

RECURSIVE DataString(_)
DataString(data) ==
    IF data = << >> THEN ""
    ELSE IF Len(data) = 1 THEN data[1]
    ELSE data[1] \o "=" \o DataString(Tail(data))

RECURSIVE parseArgument(_, _)
RECURSIVE getArgument(_, _, _)
RECURSIVE requestStruct(_)
RECURSIVE requestStructFields(_, _, _, _, _)
RECURSIVE requestStructFieldsUnnamed(_, _, _, _, _)

parseArgument(tag, fieldType) ==
    LET kind == IF tag = << >> THEN "" ELSE Head(tag)
        data == IF tag = << >> THEN << >> ELSE Tail(tag)
    IN  getArgument(kind, data, fieldType)

getArgument(kind, data, fieldType) ==
    CASE kind = "header" -> Ok(Header(DataString(data)))
      [] kind = "r_header" -> Ok(RequiredHeader(DataString(data)))
      [] kind = "json_body" -> Ok(JSONBodyDirect(fieldType))
      [] kind = "string_body" -> Ok(StringBody)
      [] kind = "byte_slice_body" -> Ok(ByteSliceBody)
      [] kind = "body_reader" -> Ok(BodyReader)
      [] kind = "url_param" -> Ok(URLParam(DataString(data)))
      [] kind = "context" -> Ok(Context)
      [] kind = "query_param" -> Ok(QueryParam(DataString(data)))
      [] kind = "r_query_param" -> Ok(RequiredQueryParam(DataString(data)))
      [] kind = "post_query_param" -> Ok(PostQueryParam(DataString(data)))
      [] kind = "r_post_query_param" ->
             Ok(RequiredPostQueryParam(DataString(data)))
      [] kind = "cookie" -> Ok(Cookie(DataString(data)))
      [] kind = "response_headers" -> Ok(ResponseHeaders)
      [] kind = "response_cookies" -> Ok(ResponseCookies)
      [] kind = "response_writer" -> Ok(ResponseWriter)
      [] kind = "request" -> Ok(Request)
      [] kind = "as_int" ->
             LET r == parseArgument(data, "string")
                 asInt == AsInt(r.arg)
             IN  IF r.err # "" THEN Fail("(as int) " \o r.err)
                 ELSE IF has(options(asInt), flagError)
                 THEN Fail("(as int) " \o asInt.name)
                 ELSE Ok(asInt)
      [] kind = "as_byte_slice" ->
             LET r == parseArgument(data, "string")
                 asByteSlice == AsByteSlice(r.arg)
             IN  IF r.err # "" THEN Fail("(as byte slice) " \o r.err)
                 ELSE IF has(options(asByteSlice), flagError)
                 THEN Fail("(as byte slice) " \o asByteSlice.name)
                 ELSE Ok(asByteSlice)
      [] kind = "request_struct" ->
             IF Kind(fieldType) # "Ptr"
             THEN IF Kind(fieldType) # "Struct"
                  THEN Fail("invalid type of request_struct")
                  ELSE LET s == requestStruct(fieldType)
                       IN  IF s.err # "" THEN Fail(s.err)
                           ELSE Ok([s.arg EXCEPT
                                      !.kind = "tagStructDirectArgument"])
             ELSE requestStruct(Elem(fieldType))
      [] OTHER -> Fail("unsupported tag")

\* requestStructFields passing on a field's error without the field's name
requestStructFieldsUnnamed(structType, i, flags, numReadsBody, arguments) ==
    LET fields == StructFields(structType) IN
    IF i > Len(fields)
    THEN IF numReadsBody > 1
         THEN Fail("only one struct field can read request's body")
         ELSE Ok([Param("tagStructArgument", "") EXCEPT
                    !.typ = structType, !.arguments = arguments,
                    !.flags = flags])
    ELSE LET f == fields[i] IN
         IF f.tag = << >>
         THEN requestStructFieldsUnnamed(structType, i + 1, flags,
                                         numReadsBody,
                                         Append(arguments, NilArgument))
         ELSE LET r == parseArgument(f.tag, f.type)
                  chk == checkArg(r.arg, f.type)
                  fieldOpts == options(r.arg)
              IN  IF r.err # "" THEN Fail(r.err)
                  ELSE IF chk # "" THEN Fail(chk)
                  ELSE requestStructFieldsUnnamed(structType, i + 1,
                           flags \cup fieldOpts,
                           IF has(fieldOpts, flagReadsRequestBody)
                           THEN numReadsBody + 1 ELSE numReadsBody,
                           Append(arguments, r.arg))

\* the loop of requestStruct over the fields i .. numFields
requestStructFields(structType, i, flags, numReadsBody, arguments) ==
    LET fields == StructFields(structType) IN
    IF i > Len(fields)
    THEN IF numReadsBody > 1
         THEN Fail("only one struct field can read request's body")
         ELSE Ok([Param("tagStructArgument", "") EXCEPT
                    !.typ = structType, !.arguments = arguments,
                    !.flags = flags])
    ELSE LET f == fields[i] IN
         IF f.tag = << >>
         THEN requestStructFields(structType, i + 1, flags, numReadsBody,
                                  Append(arguments, NilArgument))
         ELSE LET r == parseArgument(f.tag, f.type)
                  chk == checkArg(r.arg, f.type)
                  fieldOpts == options(r.arg)
              IN  IF r.err # ""
                  THEN Fail("(struct field " \o f.name \o ") " \o r.err)
                  ELSE IF chk # ""
                  THEN Fail("(struct field " \o f.name \o ") " \o chk)
                  ELSE requestStructFields(structType, i + 1,
                           flags \cup fieldOpts,
                           IF has(fieldOpts, flagReadsRequestBody)
                           THEN numReadsBody + 1 ELSE numReadsBody,
                           Append(arguments, r.arg))

requestStruct(structType) ==
    IF Kind(structType) # "Struct"
    THEN Fail("RequestStruct's argument must be a structure")
    ELSE requestStructFields(structType, 1, {flagArgument}, 0, << >>)

RequestStructDirect(s) ==
    LET reqStruct == requestStruct(s)
    IN  IF reqStruct.err # "" THEN errorEndpointParam(reqStruct.err)
        ELSE [reqStruct.arg EXCEPT !.kind = "tagStructDirectArgument"]

RequestStruct(s) ==
    LET reqStruct == requestStruct(s)
    IN  IF reqStruct.err # "" THEN errorEndpointParam(reqStruct.err)
        ELSE reqStruct.arg

(***************************************************************************)
(* Handlers.  A handler value is [nil, kind, in, out]: whether the         *)
(* interface value is nil, the reflect.Kind of its type, and for a         *)
(* function the types of its parameters and results.                       *)
(***************************************************************************)
Func(in, out) == [nil |-> FALSE, kind |-> "Func", in |-> in, out |-> out]
NilHandler == [nil |-> TRUE, kind |-> "Invalid", in |-> << >>, out |-> << >>]
NonFuncHandler == [nil |-> FALSE, kind |-> "Int", in |-> << >>, out |-> << >>]

\* the first index i (0-based) whose checkArg fails, or -1
RECURSIVE firstBadArg(_, _, _)
firstBadArg(handlerFunc, arguments, i) ==
    IF i >= Len(arguments) THEN -1
    ELSE IF checkArg(arguments[i + 1], handlerFunc.in[i + 1]) # "" THEN i
    ELSE firstBadArg(handlerFunc, arguments, i + 1)

\* checkReturns not asking the last return value to be an error
checkReturnsAnyLast(handlerFunc, writesResponse) ==
    LET out == handlerFunc.out IN
    CASE Len(out) = 0 -> Ok("noResponseHandler")
      [] Len(out) = 1 -> Ok("errorOnlyHandler")
      [] Len(out) = 2 ->
             IF writesResponse
             THEN Fail("cannot write response and return response")
             ELSE CASE Kind(out[1]) = "String" -> Ok("stringErrorHandler")
                    [] out[1] = byteType -> Ok("byteSliceErrorHandler")
                    [] Kind(out[1]) \in {"Slice", "Ptr", "Interface"} ->
                           Ok("ptrErrorHandler")
                    [] Kind(out[1]) = "Struct" -> Ok("structErrorHandler")
                    [] OTHER -> Fail("unsupported return type")
      [] OTHER -> Fail("invalid number of return arguments")

\* checkReturns taking any second return value
checkReturnsAnySecond(handlerFunc, writesResponse) ==
    LET out == handlerFunc.out IN
    CASE Len(out) = 0 -> Ok("noResponseHandler")
      [] Len(out) = 1 ->
             IF ~Implements(out[1], errType)
             THEN Fail("expect an error type in return arguments")
             ELSE Ok("errorOnlyHandler")
      [] Len(out) = 2 ->
             IF writesResponse
             THEN Fail("cannot write response and return response")
             ELSE IF Kind(out[1]) = "String" THEN Ok("stringErrorHandler")
             ELSE Fail("unsupported return type")
      [] OTHER -> Fail("invalid number of return arguments")

\* checkReturns not looking at writesResponse
checkReturnsIgnoringWrites(handlerFunc, writesResponse) ==
    LET out == handlerFunc.out IN
    CASE Len(out) = 0 -> Ok("noResponseHandler")
      [] Len(out) = 1 ->
             IF ~Implements(out[1], errType)
             THEN Fail("expect an error type in return arguments")
             ELSE Ok("errorOnlyHandler")
      [] Len(out) = 2 ->
             IF ~Implements(out[2], errType)
             THEN Fail("expect an error type in return arguments")
             ELSE IF Kind(out[1]) = "String" THEN Ok("stringErrorHandler")
             ELSE Fail("unsupported return type")
      [] OTHER -> Fail("invalid number of return arguments")

\* checkReturns taking a slice other than a byte slice for unsupported
checkReturnsSliceUnsupported(handlerFunc, writesResponse) ==
    LET out == handlerFunc.out IN
    CASE Len(out) = 0 -> Ok("noResponseHandler")
      [] Len(out) = 1 ->
             IF ~Implements(out[1], errType)
             THEN Fail("expect an error type in return arguments")
             ELSE Ok("errorOnlyHandler")
      [] Len(out) = 2 ->
             IF writesResponse
             THEN Fail("cannot write response and return response")
             ELSE IF ~Implements(out[2], errType)
             THEN Fail("expect an error type in return arguments")
             ELSE CASE Kind(out[1]) = "String" -> Ok("stringErrorHandler")
                    [] out[1] = byteType -> Ok("byteSliceErrorHandler")
                    [] Kind(out[1]) \in {"Ptr", "Interface"} ->
                           Ok("ptrErrorHandler")
                    [] Kind(out[1]) = "Struct" -> Ok("structErrorHandler")
                    [] OTHER -> Fail("unsupported return type")
      [] OTHER -> Fail("invalid number of return arguments")

\* the switch of checkHandler on fnType.NumOut()
checkReturns(handlerFunc, writesResponse) ==
    LET out == handlerFunc.out IN
    CASE Len(out) = 0 -> Ok("noResponseHandler")
      [] Len(out) = 1 ->
             IF ~Implements(out[1], errType)
             THEN Fail("expect an error type in return arguments")
             ELSE Ok("errorOnlyHandler")
      [] Len(out) = 2 ->
             IF writesResponse
             THEN Fail("cannot write response and return response")
             ELSE IF ~Implements(out[2], errType)
             THEN Fail("expect an error type in return arguments")
             ELSE CASE Kind(out[1]) = "String" -> Ok("stringErrorHandler")
                    [] Kind(out[1]) = "Slice" ->
                           IF out[1] = byteType
                           THEN Ok("byteSliceErrorHandler")
                           ELSE Ok("ptrErrorHandler")
                    [] Kind(out[1]) \in {"Ptr", "Interface"} ->
                           Ok("ptrErrorHandler")
                    [] Kind(out[1]) = "Struct" -> Ok("structErrorHandler")
                    [] OTHER -> Fail("unsupported return type")
      [] OTHER -> Fail("invalid number of return arguments")

\* checkHandler accepting a handler with more parameters than arguments
checkHandlerFewerArgs(handlerFunc, arguments, writesResponse) ==
    IF handlerFunc.kind # "Func"
    THEN Fail("handler must be a function")
    ELSE IF Len(handlerFunc.in) < Len(arguments)
    THEN Fail("number of arguments of a function doesn't match provided arguments")
    ELSE LET i == firstBadArg(handlerFunc, arguments, 0) IN
         IF i >= 0
         THEN Fail("(argument " \o ToString(i) \o ") "
                   \o checkArg(arguments[i + 1], handlerFunc.in[i + 1]))
         ELSE checkReturns(handlerFunc, writesResponse)

\* checkHandler: [err, arg] where arg names the endpointHandler type
checkHandler(handlerFunc, arguments, writesResponse) ==
    IF handlerFunc.kind # "Func"
    THEN Fail("handler must be a function")
    ELSE IF Len(handlerFunc.in) # Len(arguments)
    THEN Fail("number of arguments of a function doesn't match provided arguments")
    ELSE LET i == firstBadArg(handlerFunc, arguments, 0) IN
         IF i >= 0
         THEN Fail("(argument " \o ToString(i) \o ") "
                   \o checkArg(arguments[i + 1], handlerFunc.in[i + 1]))
         ELSE checkReturns(handlerFunc, writesResponse)

\* the dynamic type of handler is http.HandlerFunc or
\* func(http.ResponseWriter, *http.Request)
IsHTTPHandlerFunc(handler) ==
    /\ handler.kind = "Func"
    /\ handler.in = <<"http.ResponseWriter", "*http.Request">>
    /\ handler.out = << >>

\* isLegacyHandler without the checks of the return status
isLegacyHandlerIgnoringStatus(returnStatus, args, handler) ==
    CASE Len(args) = 2 ->
             /\ args[1].kind = "responseWriterArgument"
             /\ args[2].kind = "fullRequestArgument"
             /\ IsHTTPHandlerFunc(handler)
      [] Len(args) = 0 -> IsHTTPHandlerFunc(handler)
      [] OTHER -> FALSE

isLegacyHandler(returnStatus, args, handler) ==
    CASE Len(args) = 2 ->
             /\ args[1].kind = "responseWriterArgument"
             /\ args[2].kind = "fullRequestArgument"
             /\ returnStatus = 200
             /\ IsHTTPHandlerFunc(handler)
      [] Len(args) = 0 ->
             /\ returnStatus = 0
             /\ IsHTTPHandlerFunc(handler)
      [] OTHER -> FALSE


(***************************************************************************)
(* The state.                                                              *)
(*   routers  the router values created so far, by index; router 1 is the  *)
(*            one embedded in the Server.  params is a Go slice:           *)
(*            [arr, len] with arr an index into arrays (0 for nil).        *)
(*   arrays   the backing arrays of the params slices.                     *)
(*   muxes    the chi.Mux values behind the routers: the full path they    *)
(*            are mounted at, their Use()d middlewares, whether chi still  *)
(*            accepts Use() on them, and the patterns mounted below them.  *)
(*   routes   what chi has been told to serve: <<method, path>> -> route.  *)
(*   stack    the Route() calls whose RouteHandler is running, innermost   *)
(*            last.                                                        *)
(*   built    outcome of the last Handler() call since the last            *)
(*            registration: "none", "ok" or "error".                       *)
(*   last     the last operation, its inputs and what it did.              *)
(*   nreg     number of registrations made (bounds the model only).        *)
(*   nuse     number of Use() calls made (bounds the model only).          *)
(*   resp     the last request served by the http.Handler of the last      *)
(*            Handler() call, the handler function's result and the        *)
(*            response; [served |-> FALSE] when none was served yet.       *)
(*   flights  the requests that the http.Handler is serving concurrently,  *)
(*            one goroutine each, in the order they were accepted: the     *)
(*            route, the request, the values extracted so far (attribs),   *)
(*            the writer, and where the goroutine is (pc).                 *)
(***************************************************************************)
VARIABLES routers, arrays, muxes, routes, stack, built, last, nreg, nuse, resp,
          flights

vars == <<routers, arrays, muxes, routes, stack, built, last, nreg, nuse, resp,
          flights>>

Loggers == {"nil", "logger"}
Methods == {"GET"}
Middlewares == {"mw"}

(***************************************************************************)
(* Go slices of EndpointParam over the heap of backing arrays.             *)
(***************************************************************************)
NilSlice == [arr |-> 0, len |-> 0]

Cap(arrs, s) == IF s.arr = 0 THEN 0 ELSE Len(arrs[s.arr])

Elems(arrs, s) == IF s.arr = 0 THEN << >> ELSE SubSeq(arrs[s.arr], 1, s.len)

\* runtime.growslice for a slice of fewer than 1024 interface values
growslice(oldcap, needed) ==
    IF needed > 2 * oldcap THEN needed ELSE 2 * oldcap

\* append(s, xs...): [arrays, slice, fresh]; fresh tells that a new backing
\* array was allocated
append(arrs, s, xs) ==
    LET needed == s.len + Len(xs) IN
    IF Len(xs) = 0
    THEN [arrays |-> arrs, slice |-> s, fresh |-> FALSE]
    ELSE IF needed <= Cap(arrs, s)
    THEN [arrays |-> [arrs EXCEPT ![s.arr] =
                        [i \in 1..Len(@) |->
                           IF i > s.len /\ i <= needed
                           THEN xs[i - s.len] ELSE @[i]]],
          slice |-> [arr |-> s.arr, len |-> needed],
          fresh |-> FALSE]
    ELSE LET newcap == growslice(Cap(arrs, s), needed)
             data == Elems(arrs, s) \o xs
         IN  [arrays |-> Append(arrs,
                           [i \in 1..newcap |->
                              IF i <= needed THEN data[i] ELSE NilArgument]),
              slice |-> [arr |-> Len(arrs) + 1, len |-> needed],
              fresh |-> TRUE]

(***************************************************************************)
(* The loop of AddEndpoint over joinedParams, from index i (1-based here,  *)
(* reported 0-based as the code does).                                     *)
(***************************************************************************)
ScanInit ==
    [returnStatus |-> 0, query |-> FALSE, writesResponse |-> FALSE,
     numReadsBody |-> 0, args |-> << >>, err |-> ""]

RECURSIVE scanParams(_, _, _, _)
RECURSIVE scanParamsWriterWins(_, _, _, _)
RECURSIVE scanParamsIgnoringInvalid(_, _, _, _)

\* scanParams passing over a declaration that is flagged invalid
scanParamsIgnoringInvalid(name, joinedParams, i, acc) ==
    IF i > Len(joinedParams) THEN acc
    ELSE
      LET a == joinedParams[i]
          flags == options(a)
          st1 == IF has(flags, flagResponseStatus)
                 THEN a.status ELSE acc.returnStatus
          st2 == IF has(flags, flagWritesResponse) /\ st1 = 0
                 THEN StatusOK ELSE st1
          acc2 == [returnStatus |-> st2,
                   query |-> acc.query \/ has(flags, flagParsesQuery),
                   writesResponse |->
                       acc.writesResponse \/ has(flags, flagWritesResponse),
                   numReadsBody |->
                       IF has(flags, flagReadsRequestBody)
                       THEN acc.numReadsBody + 1 ELSE acc.numReadsBody,
                   args |-> IF has(flags, flagArgument)
                            THEN Append(acc.args, a) ELSE acc.args,
                   err |-> ""]
      IN  scanParamsIgnoringInvalid(name, joinedParams, i + 1, acc2)

\* scanParams with a response-writing provider always setting status 200
scanParamsWriterWins(name, joinedParams, i, acc) ==
    IF i > Len(joinedParams) THEN acc
    ELSE
      LET a == joinedParams[i]
          flags == options(a)
          st1 == IF has(flags, flagResponseStatus)
                 THEN a.status ELSE acc.returnStatus
          st2 == IF has(flags, flagWritesResponse) THEN StatusOK ELSE st1
          acc2 == [returnStatus |-> st2,
                   query |-> acc.query \/ has(flags, flagParsesQuery),
                   writesResponse |->
                       acc.writesResponse \/ has(flags, flagWritesResponse),
                   numReadsBody |->
                       IF has(flags, flagReadsRequestBody)
                       THEN acc.numReadsBody + 1 ELSE acc.numReadsBody,
                   args |-> IF has(flags, flagArgument)
                            THEN Append(acc.args, a) ELSE acc.args,
                   err |-> ""]
      IN  scanParamsWriterWins(name, joinedParams, i + 1, acc2)

scanParams(name, joinedParams, i, acc) ==
    IF i > Len(joinedParams) THEN acc
    ELSE
      LET a == joinedParams[i]
          flags == options(a)
          st1 == IF has(flags, flagResponseStatus)
                 THEN a.status ELSE acc.returnStatus
          st2 == IF has(flags, flagWritesResponse) /\ st1 = 0
                 THEN StatusOK ELSE st1
          acc2 == [returnStatus |-> st2,
                   query |-> acc.query \/ has(flags, flagParsesQuery),
                   writesResponse |->
                       acc.writesResponse \/ has(flags, flagWritesResponse),
                   numReadsBody |->
                       IF has(flags, flagReadsRequestBody)
                       THEN acc.numReadsBody + 1 ELSE acc.numReadsBody,
                   args |-> IF has(flags, flagArgument)
                            THEN Append(acc.args, a) ELSE acc.args,
                   err |-> ""]
      IN  IF has(flags, flagError)
          THEN [acc2 EXCEPT !.err =
                  "endpoint " \o name \o ": (argument " \o ToString(i - 1)
                  \o ") " \o a.name]
          ELSE scanParams(name, joinedParams, i + 1, acc2)

\* chi: the path a route registered as name on mux m is served at
FullPath(m, name) == muxes[m].prefix \o name

Route0(legacy, strategy, handlerFunc, data, logger, m, inline) ==
    [legacy |-> legacy, handler |-> strategy, handlerFunc |-> handlerFunc,
     arguments |-> data.args, returnStatus |-> data.returnStatus,
     query |-> data.query, logger |-> logger, mux |-> m, inline |-> inline]

\* chi's MethodFunc: the route replaces an earlier one of the same method
\* and path, and the mux no longer accepts Use()
MethodFunc(rts, key, route) ==
    [k \in DOMAIN rts \cup {key} |-> IF k = key THEN route ELSE rts[k]]

Freeze(m) == [muxes EXCEPT ![m].frozen = TRUE]

LastReg(r, method, name, handler, params, inherited, args, errs, installed) ==
    [op |-> "AddEndpoint", router |-> r, method |-> method, name |-> name,
     handler |-> handler, params |-> params, inherited |-> inherited,
     args |-> args, errs |-> errs, installed |-> installed]

\* the record of an operation other than AddEndpoint
LastOp(op, r, name, params, inherited, errs) ==
    [op |-> op, router |-> r, method |-> "", name |-> name,
     handler |-> NilHandler, params |-> params, inherited |-> inherited,
     args |-> << >>, errs |-> errs, installed |-> FALSE]

(***************************************************************************)
(* router.AddEndpoint                                                      *)
(***************************************************************************)
AddEndpoint(r, method, name, handler, params) ==
    LET rt == routers[r]
        inherited == Elems(arrays, rt.params)
        ap == append(arrays, rt.params, params)
        joinedParams == Elems(ap.arrays, ap.slice)
        \* a freshly allocated joinedParams is unreachable after the call
        arrays2 == IF ap.fresh THEN arrays ELSE ap.arrays
        sc == scanParams(name, joinedParams, 1, ScanInit)
        key == <<method, FullPath(rt.mux, name)>>
        status == IF sc.returnStatus = 0 THEN StatusNoContent
                  ELSE sc.returnStatus
        e1 == IF sc.numReadsBody > 1
              THEN << "endpoint " \o name
                      \o ": only one argument can read request's body" >>
              ELSE << >>
        ch == checkHandler(handler, sc.args, sc.writesResponse)
        e2 == IF ch.err # ""
              THEN << "endpoint " \o name \o ": " \o ch.err >> ELSE << >>
        data == [sc EXCEPT !.returnStatus = status]
    IN
    /\ built' = "none"
    /\ nreg' = nreg + 1
    /\ UNCHANGED <<stack, nuse>>
    /\ resp' = [served |-> FALSE]
    /\ flights' = << >>
    /\ IF handler.nil
       THEN /\ routers' = [routers EXCEPT ![r].errors =
                             Append(@, "endpoint " \o name \o ": nil handler")]
            /\ last' = LastReg(r, method, name, handler, params, inherited,
                               << >>,
                               << "endpoint " \o name \o ": nil handler" >>,
                               FALSE)
            /\ UNCHANGED <<arrays, muxes, routes>>
       ELSE IF sc.err # ""
       THEN /\ routers' = [routers EXCEPT ![r].errors = Append(@, sc.err)]
            /\ arrays' = arrays2
            /\ last' = LastReg(r, method, name, handler, params, inherited,
                               sc.args, << sc.err >>, FALSE)
            /\ UNCHANGED <<muxes, routes>>
       ELSE IF isLegacyHandler(sc.returnStatus, sc.args, handler)
       THEN /\ routes' = MethodFunc(routes, key,
                           Route0(TRUE, "legacy", handler,
                                  [sc EXCEPT !.args = << >>], rt.logger,
                                  rt.mux, rt.inline))
            /\ muxes' = Freeze(rt.mux)
            /\ arrays' = arrays2
            /\ last' = LastReg(r, method, name, handler, params, inherited,
                               sc.args, << >>, TRUE)
            /\ UNCHANGED routers
       ELSE /\ routers' = [routers EXCEPT ![r].errors = @ \o e1 \o e2]
            /\ arrays' = arrays2
            /\ IF Len(rt.errors \o e1 \o e2) > 0
               THEN /\ last' = LastReg(r, method, name, handler, params,
                                       inherited, sc.args, e1 \o e2, FALSE)
                    /\ UNCHANGED <<muxes, routes>>
               ELSE /\ routes' = MethodFunc(routes, key,
                                   Route0(FALSE, ch.arg, handler, data,
                                          rt.logger, rt.mux, rt.inline))
                    /\ muxes' = Freeze(rt.mux)
                    /\ last' = LastReg(r, method, name, handler, params,
                                       inherited, sc.args, << >>, TRUE)


(***************************************************************************)
(* Which routers the registering code can call: the Server's router, the   *)
(* node of every Route() whose RouteHandler is running, and the With()     *)
(* copies made from those.                                                 *)
(***************************************************************************)
Callable(r) ==
    \/ routers[r].scope = 1
    \/ \E i \in 1..Len(stack) : stack[i].node = routers[r].scope

\* a router value.  origin names the call that made it; of (the router a
\* With() copy was made from) and declared (the providers declared by the
\* enclosing Route() calls, outermost first) are history, not fields of the
\* Go struct.
Router0(logger, m, inline, errors, params, scope) ==
    [errors |-> errors, logger |-> logger, params |-> params, mux |-> m,
     inline |-> inline, scope |-> scope, origin |-> "NewServer", of |-> 0,
     declared |-> << >>]

Mux0(prefix) ==
    [prefix |-> prefix, middlewares |-> << >>, frozen |-> FALSE,
     mounted |-> {}]

(***************************************************************************)
(* router.Route, up to the call of the RouteHandler.  chi.Mux.Route makes  *)
(* a sub-router, runs the callback on it and mounts it at pattern; chi     *)
(* panics when pattern is already mounted on the mux, which the guard      *)
(* excludes.                                                               *)
(***************************************************************************)
RouteNil(r, pattern) ==
    LET e == "route " \o pattern \o ": nil handler" IN
    /\ routers' = [routers EXCEPT ![r].errors = Append(@, e)]
    /\ last' = LastOp("RouteNil", r, pattern, << >>, << >>, << e >>)
    /\ built' = "none"
    /\ nreg' = nreg + 1
    /\ UNCHANGED <<arrays, muxes, routes, stack, nuse>>
    /\ resp' = [served |-> FALSE]
    /\ flights' = << >>

RouteBegin(r, pattern, params) ==
    LET rt == routers[r]
        ap == append(arrays, rt.params, params)
        m == Len(muxes) + 1
        node == Len(routers) + 1
    IN
    /\ pattern \notin muxes[rt.mux].mounted
    /\ arrays' = ap.arrays
    /\ muxes' = Append([muxes EXCEPT ![rt.mux].mounted = @ \cup {pattern}],
                       [Mux0(muxes[rt.mux].prefix \o pattern) EXCEPT
                          !.middlewares = << >>])
    /\ routers' = Append(routers,
                         [Router0(rt.logger, m, << >>, << >>, ap.slice, node)
                            EXCEPT !.origin = "Route",
                                   !.declared = rt.declared \o params])
    /\ stack' = Append(stack, [node |-> node, parent |-> r,
                               pattern |-> pattern, inline |-> rt.inline])
    /\ last' = LastOp("Route", r, pattern, << >>, << >>, << >>)
    /\ built' = "none"
    /\ UNCHANGED <<routes, nreg, nuse>>
    /\ resp' = [served |-> FALSE]
    /\ flights' = << >>

\* the errors of node, each wrapped as Route does
RECURSIVE wrapErrors(_, _)
wrapErrors(pattern, errs) ==
    IF errs = << >> THEN << >>
    ELSE << "route " \o pattern \o ": " \o Head(errs) >>
         \o wrapErrors(pattern, Tail(errs))

(***************************************************************************)
(* router.Route, from the return of the RouteHandler: the innermost        *)
(* running Route() copies the node's errors to the router it was called on *)
(* and chi mounts the sub-router.                                          *)
(***************************************************************************)
RouteEnd ==
    /\ stack # << >>
    /\ LET top == stack[Len(stack)]
           errs == wrapErrors(top.pattern, routers[top.node].errors)
       IN  /\ routers' = [routers EXCEPT ![top.parent].errors = @ \o errs]
           /\ muxes' = Freeze(routers[top.parent].mux)
           /\ last' = LastOp("RouteEnd", top.parent, top.pattern, << >>,
                             << >>, errs)
    /\ stack' = SubSeq(stack, 1, Len(stack) - 1)
    /\ built' = "none"
    /\ UNCHANGED <<arrays, routes, nreg, nuse>>
    /\ resp' = [served |-> FALSE]
    /\ flights' = << >>

(***************************************************************************)
(* router.With.  chi's With returns an inline mux sharing the routing tree *)
(* and stops the mux from accepting Use().                                 *)
(***************************************************************************)
With(r, middlewares) ==
    LET rt == routers[r] IN
    /\ Cardinality({x \in 1..Len(routers) : routers[x].origin = "With"})
         < MaxCopies
    /\ routers' = Append(routers,
                         [Router0(rt.logger, rt.mux, rt.inline \o middlewares,
                                  rt.errors, NilSlice, rt.scope)
                            EXCEPT !.origin = "With", !.of = r,
                                   !.declared = rt.declared])
    /\ muxes' = IF rt.inline = << >> THEN Freeze(rt.mux) ELSE muxes
    /\ last' = LastOp("With", r, "", << >>, << >>, << >>)
    /\ built' = "none"
    /\ UNCHANGED <<arrays, routes, stack, nreg, nuse>>
    /\ resp' = [served |-> FALSE]
    /\ flights' = << >>

(***************************************************************************)
(* router.Use.  chi panics on Use() once the mux has routes, which the     *)
(* guard excludes; on a With() copy chi appends to the inline stack.       *)
(***************************************************************************)
Use(r, middlewares) ==
    LET rt == routers[r] IN
    /\ ~muxes[rt.mux].frozen
    /\ rt.inline = << >>
    /\ nuse < MaxUse
    /\ muxes' = [muxes EXCEPT ![rt.mux].middlewares = @ \o middlewares]
    /\ nuse' = nuse + 1
    /\ last' = LastOp("Use", r, "", << >>, << >>, << >>)
    /\ built' = "none"
    /\ UNCHANGED <<routers, arrays, routes, stack, nreg>>
    /\ resp' = [served |-> FALSE]
    /\ flights' = << >>

\* errMsg of Handler: the messages joined with ", "
RECURSIVE joinErrors(_)
joinErrors(errs) ==
    IF Len(errs) = 1 THEN errs[1]
    ELSE errs[1] \o ", " \o joinErrors(Tail(errs))

\* Handler forgetting the errors it reported
HandlerConsuming ==
    /\ stack = << >>
    /\ IF Len(routers[1].errors) # 0
       THEN /\ built' = "error"
            /\ last' = LastOp("Handler", 1, "", << >>, << >>,
                              << joinErrors(routers[1].errors) >>)
            /\ routers' = [routers EXCEPT ![1].errors = << >>]
       ELSE /\ built' = "ok"
            /\ last' = LastOp("Handler", 1, "", << >>, << >>, << >>)
            /\ UNCHANGED routers
    /\ UNCHANGED <<arrays, muxes, routes, stack, nreg, nuse>>
    /\ resp' = [served |-> FALSE]
    /\ flights' = << >>

(***************************************************************************)
(* Handler() of the Server's router, called outside any RouteHandler.      *)
(***************************************************************************)
Handler ==
    /\ stack = << >>
    /\ IF Len(routers[1].errors) # 0
       THEN /\ built' = "error"
            /\ last' = LastOp("Handler", 1, "", << >>, << >>,
                              << joinErrors(routers[1].errors) >>)
       ELSE /\ built' = "ok"
            /\ last' = LastOp("Handler", 1, "", << >>, << >>, << >>)
    /\ UNCHANGED <<routers, arrays, muxes, routes, stack, nreg, nuse>>
    /\ resp' = [served |-> FALSE]
    /\ flights' = << >>

(***************************************************************************)
(* Requests, errors and the http.ResponseWriter.                           *)
(*                                                                         *)
(* A request carries, for every field a provider of the endpoint names,    *)
(* whether the field is present and its value; whether r.ParseForm()       *)
(* succeeds; and whether writing to the connection succeeds.  A field is   *)
(* <<source, name>> with source one of "header", "cookie", "form",         *)
(* "postForm", "url".                                                      *)
(***************************************************************************)
Absent == [present |-> FALSE, value |-> ""]
Present(v) == [present |-> TRUE, value |-> v]

FieldVals == { Absent, Present(""), Present("v"), Present("42") }

\* an error value: nil, an ApiError (statusError) or any other error
NilError ==
    [nil |-> TRUE, api |-> FALSE, errCode |-> 0, message |-> "", reason |-> ""]

\* errors.New(message)
PlainError(message) ==
    [nil |-> FALSE, api |-> FALSE, errCode |-> 0, message |-> message,
     reason |-> ""]

\* Error dropping the reason, as Errorf does
ErrorReasonUnknown(status, logMsg, reason) ==
    [nil |-> FALSE, api |-> TRUE, errCode |-> status, message |-> logMsg,
     reason |-> "unknown"]

Error(status, logMsg, reason) ==
    [nil |-> FALSE, api |-> TRUE, errCode |-> status, message |-> logMsg,
     reason |-> reason]

\* Errorf: message is the formatted text, the reason is always "unknown"
Errorf(status, message) ==
    [nil |-> FALSE, api |-> TRUE, errCode |-> status, message |-> message,
     reason |-> "unknown"]

WrapError(status, err, reason) ==
    [nil |-> FALSE, api |-> TRUE, errCode |-> status, message |-> err.message,
     reason |-> reason]

\* http.Header.Get, url.Values.Get: the empty string for a missing key
Get(rq, source, name) ==
    IF <<source, name>> \in DOMAIN rq.fields
    THEN rq.fields[<<source, name>>].value ELSE ""

\* r.Cookie(name) returns http.ErrNoCookie for a missing cookie
HasCookie(rq, name) ==
    /\ <<"cookie", name>> \in DOMAIN rq.fields
    /\ rq.fields[<<"cookie", name>>].present

\* r.Form and r.PostForm are nil until r.ParseForm() has run
FormGet(rq, parsed, source, name) ==
    IF parsed THEN Get(rq, source, name) ELSE ""

(***************************************************************************)
(* The values a handler returns besides strings and byte slices: nil (a    *)
(* nil pointer, interface or slice) or a value of dynamic type dyn holding *)
(* the string str: T{Name: str}, &T{Name: str}, []string{str}, or a        *)
(* channel, which encoding/json does not support.  A decoded request body  *)
(* is such a value too.                                                    *)
(***************************************************************************)
NilObj == [nil |-> TRUE, dyn |-> "", str |-> ""]
Obj(dyn, str) == [nil |-> FALSE, dyn |-> dyn, str |-> str]

Value(v) == [err |-> NilError, value |-> v]
NoValue(err) == [err |-> err, value |-> ""]

(***************************************************************************)
(* A request body is the sequence of its JSON tokens, a member of an       *)
(* object being one token.  json.Decoder.Decode reads the first JSON value *)
(* of the stream into a T and looks at nothing after it: [err, arg] with   *)
(* arg the Name decoded.                                                   *)
(***************************************************************************)
Decode(body, typ) ==
    IF body = << >> THEN Fail("EOF")
    ELSE IF body[1] # "{"
    THEN Fail("invalid character looking for beginning of value")
    ELSE IF Len(body) = 1 THEN Fail("unexpected EOF")
    ELSE IF body[2] = "}" THEN Ok("")
    ELSE IF body[2] \notin {"\"Name\":\"John\"", "\"Name\":5"}
    THEN Fail("invalid character looking for beginning of object key string")
    ELSE IF Len(body) = 2 THEN Fail("unexpected EOF")
    ELSE IF body[3] # "}"
    THEN Fail("invalid character after object key:value pair")
    ELSE IF body[2] = "\"Name\":5"
    THEN Fail("json: cannot unmarshal number into Go struct field "
              \o typ \o ".Name of type string")
    ELSE Ok("John")

\* encoding/json's string encoding: the quote and the backslash are escaped
jsonString(str) ==
    "\"" \o (CASE str = "say \"hi\"" -> "say \\\"hi\\\""
               [] OTHER -> str) \o "\""

\* Atoi taking the empty string for zero
AtoiEmptyIsZero(str) ==
    IF str = "42" THEN Ok(42)
    ELSE IF str = "" THEN Ok(0)
    ELSE Fail("strconv.Atoi: parsing " \o jsonString(str)
              \o ": invalid syntax")

\* strconv.Atoi: [err, arg]
Atoi(str) ==
    IF str = "42" THEN Ok(42)
    ELSE Fail("strconv.Atoi: parsing " \o jsonString(str)
              \o ": invalid syntax")

RECURSIVE getValue(_, _, _)
RECURSIVE constructStruct(_, _, _, _, _, _)

\* Argument.getValue: [err, value]
getValue(a, rq, parsed) ==
    CASE a.kind = "headerArgument" -> Value(Get(rq, "header", a.name))
      [] a.kind = "requiredHeaderArgument" ->
             LET value == Get(rq, "header", a.name)
                 msg == "missing required header " \o a.name
             IN  IF value = ""
                 THEN NoValue(Error(StatusBadRequest, msg, msg))
                 ELSE Value(value)
      [] a.kind = "urlParamArgument" -> Value(Get(rq, "url", a.name))
      [] a.kind = "queryParamArgument" ->
             Value(FormGet(rq, parsed, "form", a.name))
      [] a.kind = "requiredQueryParamArgument" ->
             LET value == FormGet(rq, parsed, "form", a.name)
                 m == "missing required query param " \o a.name
             IN  IF value = ""
                 THEN NoValue(Error(StatusBadRequest, m, m))
                 ELSE Value(value)
      [] a.kind = "postQueryParamArgument" ->
             Value(FormGet(rq, parsed, "postForm", a.name))
      [] a.kind = "requiredPostQueryParamArgument" ->
             LET value == FormGet(rq, parsed, "postForm", a.name)
                 m == "missing required post query param " \o a.name
             IN  IF value = ""
                 THEN NoValue(Error(StatusBadRequest, m, m))
                 ELSE Value(value)
      [] a.kind = "cookieArgument" ->
             IF ~HasCookie(rq, a.name) THEN Value("")
             ELSE Value(Get(rq, "cookie", a.name))
      [] a.kind = "requiredCookieArgument" ->
             LET msg == "missing cookie " \o a.name
             IN  IF ~HasCookie(rq, a.name)
                 THEN NoValue(Error(StatusBadRequest, msg, msg))
                 ELSE Value(Get(rq, "cookie", a.name))
      [] a.kind = "responseWriterArgument" -> Value("w")
      [] a.kind = "fullRequestArgument" -> Value("r")
      [] a.kind = "jsonBodyArgument" ->
             LET err == Decode(rq.body, a.typ) IN
             IF err.err # ""
             THEN NoValue(WrapError(StatusBadRequest, PlainError(err.err),
                                    "cannot unmarshal request"))
             ELSE Value(Obj(PtrTo(a.typ), err.arg))
      [] a.kind = "jsonBodyDirectArgument" ->
             LET err == Decode(rq.body, a.typ) IN
             IF err.err # ""
             THEN NoValue(WrapError(StatusBadRequest, PlainError(err.err),
                                    "cannot unmarshal request"))
             ELSE Value(Obj(a.typ, err.arg))
      [] a.kind = "asIntArgument" ->
             LET v == getValue(a.arguments[1], rq, parsed)
                 intValue == Atoi(v.value)
             IN  IF ~v.err.nil THEN NoValue(v.err)
                 ELSE IF intValue.err # ""
                 THEN NoValue(WrapError(StatusBadRequest,
                          PlainError("AsInt(" \o v.value
                                     \o ") conversion failed: "
                                     \o intValue.err),
                          "integer parse error"))
                 ELSE Value(intValue.arg)
      [] a.kind = "asByteSliceArgument" ->
             LET v == getValue(a.arguments[1], rq, parsed)
             IN  IF ~v.err.nil THEN NoValue(v.err)
                 ELSE Value([bytes |-> v.value])
      [] a.kind = "tagStructArgument" ->
             constructStruct(a.typ, a.arguments, rq, parsed, 1, << >>)
      [] a.kind = "tagStructDirectArgument" ->
             LET v == constructStruct(a.typ, a.arguments, rq, parsed, 1, << >>)
             IN  IF ~v.err.nil THEN NoValue(v.err)
                 ELSE Value([v.value EXCEPT !.dyn = a.typ])

\* the loop of constructStruct from field i: a pointer to a struct whose
\* untagged fields keep their zero value
constructStruct(structType, args, rq, parsed, i, fields) ==
    IF i > Len(args)
    THEN Value([nil |-> FALSE, dyn |-> PtrTo(structType), fields |-> fields])
    ELSE IF args[i] = NilArgument
    THEN constructStruct(structType, args, rq, parsed, i + 1,
                         Append(fields, "zero"))
    ELSE LET fieldValue == getValue(args[i], rq, parsed) IN
         IF ~fieldValue.err.nil THEN NoValue(fieldValue.err)
         ELSE constructStruct(structType, args, rq, parsed, i + 1,
                              Append(fields, fieldValue.value))

\* the loop of getCallAttributes from argument i: [err, result, reached],
\* reached being the number of arguments whose getValue was called
RECURSIVE getValues(_, _, _, _, _)
RECURSIVE getValuesRejectingEmpty(_, _, _, _, _)
RECURSIVE getValuesLastFailure(_, _, _, _, _)

\* getValues calling getValue of every argument and returning the last
\* failure
getValuesLastFailure(arguments, rq, parsed, i, result) ==
    IF i > Len(arguments)
    THEN [err |-> NilError, result |-> result, reached |-> i - 1]
    ELSE LET v == getValue(arguments[i], rq, parsed)
             rest == getValuesLastFailure(arguments, rq, parsed, i + 1,
                                          Append(result, v.value))
         IN  IF ~rest.err.nil \/ v.err.nil THEN rest
             ELSE [err |-> v.err, result |-> << >>,
                   reached |-> Len(arguments)]

\* getValues treating an empty value as a missing one
getValuesRejectingEmpty(arguments, rq, parsed, i, result) ==
    IF i > Len(arguments)
    THEN [err |-> NilError, result |-> result, reached |-> i - 1]
    ELSE LET v == getValue(arguments[i], rq, parsed) IN
         IF ~v.err.nil \/ v.value = ""
         THEN [err |-> Error(StatusBadRequest, "empty", "empty"),
               result |-> << >>, reached |-> i]
         ELSE getValuesRejectingEmpty(arguments, rq, parsed, i + 1,
                                      Append(result, v.value))

getValues(arguments, rq, parsed, i, result) ==
    IF i > Len(arguments)
    THEN [err |-> NilError, result |-> result, reached |-> i - 1]
    ELSE LET v == getValue(arguments[i], rq, parsed) IN
         IF ~v.err.nil
         THEN [err |-> v.err, result |-> << >>, reached |-> i]
         ELSE getValues(arguments, rq, parsed, i + 1, Append(result, v.value))

getCallAttributes(rq, endpoint) ==
    IF endpoint.query /\ ~rq.parseFormOK
    THEN [err |-> WrapError(StatusBadRequest, PlainError("invalid URL escape"),
                            "could not parse form"),
          result |-> << >>, reached |-> 0]
    ELSE getValues(endpoint.arguments, rq, endpoint.query, 1, << >>)

(***************************************************************************)
(* http.ResponseWriter: status 0 means that no header has been written.    *)
(* WriteHeader is ignored once the header is written and panics on a code  *)
(* outside 100..999; the first Write writes the header with 200.           *)
(***************************************************************************)
Writer0(writeOK) ==
    [status |-> 0, body |-> "", panicked |-> FALSE, writeOK |-> writeOK,
     log |-> << >>]

WriteHeader(w, code) ==
    IF w.panicked \/ w.status # 0 THEN w
    ELSE IF code < 100 \/ code > 999 THEN [w EXCEPT !.panicked = TRUE]
    ELSE [w EXCEPT !.status = code]

\* Write that does not write the header
WriteLeavingHeader(w, data) ==
    IF w.panicked \/ ~w.writeOK THEN w ELSE [w EXCEPT !.body = @ \o data]

Write(w, data) ==
    IF w.panicked THEN w
    ELSE LET w1 == IF w.status = 0 THEN [w EXCEPT !.status = StatusOK] ELSE w
         IN  IF w.writeOK THEN [w1 EXCEPT !.body = @ \o data] ELSE w1

\* EncodeErrorResponse without the newline that Encode appends
EncodeErrorResponseNoNewline(w, status, reason) ==
    Write(w, "{\"status\":" \o ToString(status) \o ",\"reason\":"
             \o jsonString(reason) \o "}")

\* json.NewEncoder(w).Encode(errorResponse{Status, Reason})
EncodeErrorResponse(w, status, reason) ==
    Write(w, "{\"status\":" \o ToString(status) \o ",\"reason\":"
             \o jsonString(reason) \o "}\n")


\* IsNil taking every value for a non-nil one
IsNilNever(v) == FALSE

\* reflect.Value.IsNil
IsNil(v) == v.nil

\* json.Marshal: [err, arg] with arg the encoding
Marshal(v) ==
    CASE v.nil -> Ok("null")
      [] v.dyn \in {"T", "*T"} -> Ok("{\"Name\":" \o jsonString(v.str) \o "}")
      [] v.dyn = "[]string" -> Ok("[" \o jsonString(v.str) \o "]")
      [] OTHER -> Fail("json: unsupported type: " \o v.dyn)

\* json.NewEncoder(w).Encode(v): [w, err]; nothing is written when the
\* value cannot be encoded, and a failing write is returned as the error
Encode(w, v) ==
    LET m == Marshal(v) IN
    IF m.err # ""
    THEN [w |-> w, err |-> PlainError(m.err)]
    ELSE [w |-> Write(w, m.arg \o "\n"),
          err |-> IF w.writeOK THEN NilError ELSE PlainError("write failed")]

Log(w, logger, call) ==
    IF logger # "nil" THEN [w EXCEPT !.log = Append(@, call)] ELSE w

\* handleError giving the message of an ordinary error as the reason
handleErrorLeakingMessage(w, logger, err) ==
    LET w1 == IF err.api THEN Log(w, logger, "LogApiError")
              ELSE Log(w, logger, "LogError")
        apiErr == IF err.api THEN err
                  ELSE Error(StatusInternalServerError, err.message,
                             err.message)
    IN  EncodeErrorResponse(WriteHeader(w1, apiErr.errCode),
                            apiErr.errCode, apiErr.reason)

handleError(w, logger, err) ==
    LET w1 == IF err.api THEN Log(w, logger, "LogApiError")
              ELSE Log(w, logger, "LogError")
        apiErr == IF err.api THEN err
                  ELSE Error(StatusInternalServerError, err.message,
                             "unknown")
    IN  EncodeErrorResponse(WriteHeader(w1, apiErr.errCode),
                            apiErr.errCode, apiErr.reason)

\* errorValue is the handler's last result; the type assertion to error
\* succeeds for every value of a type implementing error
handleErrorValue(w, logger, errorValue, isError) ==
    IF ~isError
    THEN EncodeErrorResponse(WriteHeader(w, StatusInternalServerError),
                             StatusInternalServerError,
                             "invalid API construction")
    ELSE handleError(w, logger, errorValue)

\* the end of ptrErrorHandler and structErrorHandler: the value is encoded
\* into the response, a failure is handled as an API error
encodeResponse(w, logger, v) ==
    LET e == Encode(w, v) IN
    IF ~e.err.nil
    THEN handleError(e.w, logger,
                     WrapError(StatusInternalServerError, e.err,
                               "cannot encode response"))
    ELSE e.w

(***************************************************************************)
(* What a handler function may return, by its result types.                *)
(***************************************************************************)
ErrorValues ==
    { NilError,
      Error(StatusForbidden, "forbidden", "forbidden"),
      Error(0, "no status", "zero"),
      Error(StatusBadRequest, "quoted", "say \"hi\""),
      Errorf(StatusForbidden, "denied by rule 7"),
      WrapError(StatusBadRequest, PlainError("sql: no rows"), "no such order"),
      PlainError("boom"),
      PlainError("secret") }

StringValues == { "", "hello" }

Result(value, err) == [value |-> value, err |-> err]

\* the values of a result type other than string and []byte
ObjectValues(t) ==
    CASE t = "*T" -> { NilObj, Obj("*T", "John") }
      [] t = "interface{}" ->
             { NilObj, Obj("T", "John"), Obj("chan int", "") }
      [] t = "T" -> { Obj("T", "John"), Obj("T", "say \"hi\"") }
      [] t = "[]string" -> { NilObj, Obj("[]string", "a") }

Results(handlerFunc) ==
    CASE Len(handlerFunc.out) = 0 -> { Result("", NilError) }
      [] Len(handlerFunc.out) = 1 -> { Result("", e) : e \in ErrorValues }
      [] OTHER ->
             IF handlerFunc.out[1] \in {"string", byteType}
             THEN { Result(v, e) : v \in StringValues, e \in ErrorValues }
             ELSE { Result(v, e) : v \in ObjectValues(handlerFunc.out[1]),
                                   e \in ErrorValues }

(***************************************************************************)
(* endpointHandler.handleRequest of the response strategies: the writer    *)
(* after the request, with called telling whether the handler function    *)
(* was invoked and args the values it was invoked with.                    *)
(***************************************************************************)
Handled(w, called, args) == [w |-> w, called |-> called, args |-> args]

\* the part of handleRequest from value.Call(attribs) on
callHandler(route, w, attribs, result) ==
    LET endpoint == route
        logger == route.logger
        isError == Implements(route.handlerFunc.out[Len(route.handlerFunc.out)],
                              errType)
    IN
    CASE route.handler = "noResponseHandler" ->
             Handled(WriteHeader(w, endpoint.returnStatus), 1, attribs)
      [] route.handler = "errorOnlyHandler" ->
             IF ~result.err.nil
             THEN Handled(handleErrorValue(w, logger, result.err, isError),
                          1, attribs)
             ELSE Handled(WriteHeader(w, endpoint.returnStatus), 1,
                          attribs)
      [] route.handler = "stringErrorHandler" ->
             IF ~result.err.nil
             THEN Handled(handleErrorValue(w, logger, result.err, isError),
                          1, attribs)
             ELSE IF result.value = ""
             THEN Handled(WriteHeader(w, StatusNoContent), 1, attribs)
             ELSE LET w1 == Write(w, result.value) IN
                  IF ~w.writeOK
                  THEN Handled(WriteHeader(w1, StatusInternalServerError), 1,
                               attribs)
                  ELSE Handled(w1, 1, attribs)
      [] route.handler = "byteSliceErrorHandler" ->
             IF ~result.err.nil
             THEN Handled(handleErrorValue(w, logger, result.err, isError),
                          1, attribs)
             ELSE IF result.value = ""
             THEN Handled(WriteHeader(w, StatusNoContent), 1, attribs)
             ELSE LET w1 == Write(w, result.value) IN
                  IF ~w.writeOK
                  THEN Handled(WriteHeader(w1, StatusInternalServerError), 1,
                               attribs)
                  ELSE Handled(w1, 1, attribs)
      [] route.handler = "ptrErrorHandler" ->
             IF ~result.err.nil
             THEN Handled(handleErrorValue(w, logger, result.err, isError),
                          1, attribs)
             ELSE IF IsNil(result.value)
             THEN Handled(WriteHeader(w, StatusNoContent), 1, attribs)
             ELSE Handled(encodeResponse(w, logger, result.value), 1,
                          attribs)
      [] route.handler = "structErrorHandler" ->
             IF ~result.err.nil
             THEN Handled(handleErrorValue(w, logger, result.err, isError),
                          1, attribs)
             ELSE Handled(encodeResponse(w, logger, result.value), 1,
                          attribs)

handleRequest(route, rq, result) ==
    LET endpoint == route
        logger == route.logger
        w == Writer0(rq.writeOK)
        attribs == getCallAttributes(rq, endpoint)
    IN
    IF ~attribs.err.nil
    THEN Handled(handleError(w, logger, attribs.err), 0, << >>)
    ELSE callHandler(route, w, attribs.result, result)

\* the fields the providers of a route read
Source(a) ==
    CASE a.kind \in {"headerArgument", "requiredHeaderArgument"} -> "header"
      [] a.kind \in {"cookieArgument", "requiredCookieArgument"} -> "cookie"
      [] a.kind \in {"queryParamArgument", "requiredQueryParamArgument"} ->
             "form"
      [] a.kind \in {"postQueryParamArgument",
                     "requiredPostQueryParamArgument"} -> "postForm"
      [] a.kind = "urlParamArgument" -> "url"

\* the providers that read the request for provider a: a itself, the
\* provider a conversion wraps, the providers of a tagged struct's fields
RECURSIVE Leaves(_)
Leaves(a) ==
    CASE a.kind \in {"asIntArgument", "asByteSliceArgument"} ->
             Leaves(a.arguments[1])
      [] a.kind \in {"tagStructArgument", "tagStructDirectArgument"} ->
             UNION { Leaves(a.arguments[i]) : i \in 1..Len(a.arguments) }
      [] OTHER -> {a}

Slots(arguments) ==
    { <<Source(l), l.name>> :
        l \in { a \in UNION { Leaves(arguments[i]) :
                                i \in 1..Len(arguments) } :
                  a.kind \in StringKinds } }

\* the request bodies: none, an object of T's shape, one cut short, one
\* followed by more text, text that is no JSON, a number for the name
Bodies ==
    { << >>,
      << "{", "\"Name\":\"John\"", "}" >>,
      << "{", "\"Name\":\"John\"" >>,
      << "{", "\"Name\":\"John\"", "}", "}" >>,
      << "Name" >>,
      << "{", "\"Name\":5", "}" >> }

Requests(route) ==
    [ fields : [Slots(route.arguments) -> FieldVals],
      parseFormOK : IF route.query THEN BOOLEAN ELSE {TRUE},
      body : IF \E i \in 1..Len(route.arguments) :
                  \E l \in Leaves(route.arguments[i]) :
                     l.kind \in {"jsonBodyArgument", "jsonBodyDirectArgument",
                                 "stringBodyArgument", "byteSliceBodyArgument"}
             THEN Bodies ELSE { << >> },
      writeOK : BOOLEAN ]

NoResponse == [served |-> FALSE]

(***************************************************************************)
(* One request served by the http.Handler that Handler() returned: chi     *)
(* routes it to the endpoint registered for its method and path.  Serving  *)
(* leaves nothing behind in the router, so one request is observed per     *)
(* Handler() call.                                                         *)
(***************************************************************************)
Serve ==
    /\ built = "ok"
    /\ ~resp.served
    /\ \E key \in DOMAIN routes :
         /\ ~routes[key].legacy
         /\ \E rq \in Requests(routes[key]),
               result \in Results(routes[key].handlerFunc) :
              LET h == handleRequest(routes[key], rq, result) IN
              resp' = [served |-> TRUE, key |-> key, rq |-> rq,
                       result |-> result, called |-> h.called,
                       args |-> h.args, status |-> h.w.status,
                       body |-> h.w.body, panicked |-> h.w.panicked,
                       log |-> h.w.log]
    /\ UNCHANGED <<routers, arrays, muxes, routes, stack, built, last, nreg,
                   nuse, flights>>

(***************************************************************************)
(* A legacy handler is the function chi calls: what it does with the       *)
(* writer is its own code.  HandlerWrites are the calls such a function    *)
(* makes on the writer, as the handlers of the tests do.                   *)
(***************************************************************************)
HandlerWrites ==
    LET WriteHeaderCall(code) ==
            [op |-> "WriteHeader", code |-> code, data |-> ""]
        WriteCall(data) == [op |-> "Write", code |-> 0, data |-> data]
    IN
    { << >>,
      << WriteHeaderCall(StatusMultiStatus), WriteCall("response to test!") >>,
      << WriteCall("response to "), WriteCall("test!") >>,
      << WriteHeaderCall(StatusAccepted) >>,
      << WriteCall("hello"), WriteHeaderCall(StatusInternalServerError) >> }

\* http.HandlerFunc.ServeHTTP: the calls of the function from the i-th on
RECURSIVE ServeHTTP(_, _, _)
ServeHTTP(w, calls, i) ==
    IF i > Len(calls) THEN w
    ELSE ServeHTTP(IF calls[i].op = "WriteHeader"
                   THEN WriteHeader(w, calls[i].code)
                   ELSE Write(w, calls[i].data),
                   calls, i + 1)

\* one request routed by chi to a legacy handler
ServeLegacy ==
    /\ built = "ok"
    /\ ~resp.served
    /\ \E key \in DOMAIN routes :
         /\ routes[key].legacy
         /\ \E rq \in Requests(routes[key]), calls \in HandlerWrites :
              LET w == ServeHTTP(Writer0(rq.writeOK), calls, 1) IN
              resp' = [served |-> TRUE, key |-> key, rq |-> rq,
                       result |-> calls, called |-> 1,
                       args |-> << "w", "r" >>, status |-> w.status,
                       body |-> w.body, panicked |-> w.panicked,
                       log |-> w.log]
    /\ UNCHANGED <<routers, arrays, muxes, routes, stack, built, last, nreg,
                   nuse, flights>>
(***************************************************************************)
(* Requests served concurrently.  net/http runs the closure that           *)
(* AddEndpoint installed in one goroutine per request; the steps of the    *)
(* goroutines interleave.  Accept is the start of handleRequest up to      *)
(* r.ParseForm(), Extract one turn of the loop of getCallAttributes, Call  *)
(* the call of the handler function and the writing of the response.       *)
(***************************************************************************)
Accept ==
    /\ built = "ok"
    /\ Len(flights) < MaxFlights
    /\ \E key \in DOMAIN routes :
         /\ ~routes[key].legacy
         /\ \E rq \in { r \in Requests(routes[key]) :
                          /\ r.writeOK
                          /\ \A f \in DOMAIN r.fields :
                                r.fields[f] \in {Absent, Present("v")} } :
              LET w == Writer0(rq.writeOK)
                  err == WrapError(StatusBadRequest,
                                   PlainError("invalid URL escape"),
                                   "could not parse form")
                  failed == routes[key].query /\ ~rq.parseFormOK
              IN  flights' = Append(flights,
                      [pc |-> IF failed THEN "done" ELSE "extract",
                       key |-> key, rq |-> rq, attribs |-> << >>,
                       w |-> IF failed
                             THEN handleError(w, routes[key].logger, err)
                             ELSE w,
                       called |-> 0, result |-> Result("", NilError)])
    /\ UNCHANGED <<routers, arrays, muxes, routes, stack, built, last, nreg,
                   nuse, resp>>

\* Extract reading the request of the first goroutine
ExtractShared(id) ==
    LET f == flights[id]
        route == routes[f.key]
        value == getValue(route.arguments[Len(f.attribs) + 1], flights[1].rq,
                          route.query)
    IN
    /\ f.pc = "extract"
    /\ Len(f.attribs) < Len(route.arguments)
    /\ flights' = [flights EXCEPT ![id] =
                     IF ~value.err.nil
                     THEN [f EXCEPT !.pc = "done", !.attribs = << >>,
                                    !.w = handleError(f.w, route.logger,
                                                      value.err)]
                     ELSE [f EXCEPT !.attribs = Append(@, value.value)]]
    /\ UNCHANGED <<routers, arrays, muxes, routes, stack, built, last, nreg,
                   nuse, resp>>

Extract(id) ==
    LET f == flights[id]
        route == routes[f.key]
        value == getValue(route.arguments[Len(f.attribs) + 1], f.rq,
                          route.query)
    IN
    /\ f.pc = "extract"
    /\ Len(f.attribs) < Len(route.arguments)
    /\ flights' = [flights EXCEPT ![id] =
                     IF ~value.err.nil
                     THEN [f EXCEPT !.pc = "done", !.attribs = << >>,
                                    !.w = handleError(f.w, route.logger,
                                                      value.err)]
                     ELSE [f EXCEPT !.attribs = Append(@, value.value)]]
    /\ UNCHANGED <<routers, arrays, muxes, routes, stack, built, last, nreg,
                   nuse, resp>>

Call(id) ==
    LET f == flights[id]
        route == routes[f.key]
    IN
    /\ f.pc = "extract"
    /\ Len(f.attribs) = Len(route.arguments)
    /\ \E result \in { r \in Results(route.handlerFunc) :
                          r.err \in {NilError, PlainError("boom")} } :
         LET h == callHandler(route, f.w, f.attribs, result) IN
         flights' = [flights EXCEPT ![id] =
                       [f EXCEPT !.pc = "done", !.w = h.w,
                                 !.called = h.called, !.attribs = h.args,
                                 !.result = result]]
    /\ UNCHANGED <<routers, arrays, muxes, routes, stack, built, last, nreg,
                   nuse, resp>>

\* NewServer(logger)
Init ==
    /\ \E logger \in Loggers :
         routers = << Router0(logger, 1, << >>, << >>, NilSlice, 1) >>
    /\ arrays = << >>
    /\ muxes = << Mux0("") >>
    /\ routes = << >>
    /\ stack = << >>
    /\ built = "none"
    /\ last = LastOp("NewServer", 1, "", << >>, << >>, << >>)
    /\ nreg = 0
    /\ nuse = 0
    /\ resp = NoResponse
    /\ flights = << >>

(***************************************************************************)
(* The registering code of the tree specification: nested Route() scopes,  *)
(* With() copies and Use(), with few handlers and providers.  Endpoint     *)
(* names and route patterns are labels: the k-th registration uses the     *)
(* k-th name, the k-th Route() on a mux the k-th pattern (chi requires     *)
(* the patterns mounted on one mux to differ).  A scope, copy or           *)
(* middleware that no registration can follow is not explored.             *)
(***************************************************************************)
TreeHandlers ==
    { NilHandler,
      Func(<<"string">>, <<errType>>),
      Func(<<byteSliceType>>, <<errType>>),
      Func(<<"string", byteSliceType>>, <<errType>>) }

TreeParams == { << >>, << ByteSliceBody >> }

TreeRouteParams == { << >>, << StringBody >> }

NextName == IF nreg % 2 = 0 THEN "/a" ELSE "/b"

NextPattern(m) == IF muxes[m].mounted = {} THEN "/v1" ELSE "/v2"

RegisterTree ==
    /\ nreg < MaxEndpoints
    /\ \E r \in 1..Len(routers), method \in Methods,
          handler \in TreeHandlers, params \in TreeParams :
         /\ Callable(r)
         /\ AddEndpoint(r, method, NextName, handler, params)

RouteTreeNil ==
    /\ nreg < MaxEndpoints
    /\ \E r \in 1..Len(routers) :
         Callable(r) /\ RouteNil(r, NextPattern(routers[r].mux))

Nodes == {x \in 1..Len(routers) : routers[x].origin = "Route"}

RouteTree ==
    /\ nreg < MaxEndpoints
    /\ Cardinality(Nodes) < MaxNodes
    /\ \E r \in 1..Len(routers), params \in TreeRouteParams :
         Callable(r) /\ RouteBegin(r, NextPattern(routers[r].mux), params)

WithTree ==
    /\ nreg < MaxEndpoints
    /\ \E r \in 1..Len(routers), mw \in Middlewares :
         Callable(r) /\ With(r, << mw >>)

UseTree ==
    /\ nreg < MaxEndpoints
    /\ \E r \in 1..Len(routers), mw \in Middlewares :
         Callable(r) /\ Use(r, << mw >>)

Next ==
    \/ RegisterTree
    \/ RouteTreeNil
    \/ RouteTree
    \/ RouteEnd
    \/ WithTree
    \/ UseTree
    \/ Handler

Spec == Init /\ [][Next]_vars

(***************************************************************************)
(* The registering code of the signature specification: every handler      *)
(* signature below with every provider list below, on the Server's router  *)
(* or inside a Route() scope, always on the innermost router in scope.     *)
(***************************************************************************)
SigHandlers ==
    { NonFuncHandler,
      Func(<< >>, <<errType>>),
      Func(<<"string">>, <<errType>>),
      Func(<<"string", "string">>, <<errType>>),
      Func(<< >>, <<"string", errType>>),
      Func(<<"string">>, <<"string", "string">>),
      Func(<<responseWriterType>>, <<"string", errType>>),
      Func(<<responseWriterType>>, <<"string", "string">>),
      Func(<<responseWriterType, fullRequestType>>, << >>),
      Func(<<PtrTo("S3")>>, <<"string", errType>>) }

SigParams ==
    { << >>,
      << Header("X") >>,
      << Header("X"), QueryParam("q") >>,
      << ResponseWriter >>,
      << ResponseWriter, Request >>,
      << StringBody, ByteSliceBody >>,
      << RequestStruct("S3") >>,
      << RequestStruct("N2") >>,
      << RequestStruct("string") >> }

SigRouteParams == { << Header("X") >>, << StringBody >> }

\* the innermost router in scope
Current == IF stack = << >> THEN 1 ELSE stack[Len(stack)].node

RegisterSig ==
    /\ nreg < MaxSigEndpoints
    /\ \E method \in Methods, handler \in SigHandlers, params \in SigParams :
         AddEndpoint(Current, method, NextName, handler, params)

RouteSig ==
    /\ nreg < MaxSigEndpoints
    /\ Cardinality(Nodes) < MaxSigNodes
    /\ \E params \in SigRouteParams :
         RouteBegin(Current, NextPattern(routers[Current].mux), params)

NextSig ==
    \/ RegisterSig
    \/ RouteSig
    \/ RouteEnd
    \/ Handler

SpecSig == Init /\ [][NextSig]_vars

(***************************************************************************)
(* The serving specification: endpoints that pass registration, on the     *)
(* Server's router, and the requests served once Handler() has succeeded.  *)
(***************************************************************************)
StringProviders ==
    { Header("X-Test1"), RequiredHeader("X-Test1"), URLParam("id"),
      QueryParam("q"), RequiredQueryParam("q"), PostQueryParam("p"),
      RequiredPostQueryParam("p"), Cookie("Test1"), RequiredCookie("Test1") }

Endpoint(handler, params) == [handler |-> handler, params |-> params]

ServeEndpoints ==
    { Endpoint(Func(<<"string">>, <<errType>>), << p >>) :
        p \in StringProviders }
    \cup
    { Endpoint(Func(<< >>, <<"string", errType>>), << >>),
      Endpoint(Func(<< >>, << >>), << >>),
      Endpoint(Func(<<"string", "string">>, <<errType>>),
               << RequiredQueryParam("q"), RequiredCookie("Test1") >>) }

RegisterServe ==
    /\ nreg < MaxServeEndpoints
    /\ \E method \in Methods, e \in ServeEndpoints :
         AddEndpoint(1, method, NextName, e.handler, e.params)

NextServe ==
    \/ RegisterServe
    \/ Handler
    \/ Serve

SpecServe == Init /\ [][NextServe]_vars

(***************************************************************************)
(* The reply specification: one endpoint per return shape and per way of   *)
(* declaring the success status, on the Server's router, and the requests  *)
(* served once Handler() has succeeded.                                    *)
(***************************************************************************)
ReplyEndpoints ==
    { \* no return value, error only
      Endpoint(Func(<< >>, << >>), << >>),
      Endpoint(Func(<< >>, << >>), << ResponseStatus(StatusAccepted) >>),
      Endpoint(Func(<<responseWriterType>>, << >>), << ResponseWriter >>),
      Endpoint(Func(<<responseWriterType, fullRequestType>>, << >>),
               << ResponseStatus(StatusAccepted), ResponseWriter, Request >>),
      Endpoint(Func(<<responseWriterType, fullRequestType>>, << >>),
               << ResponseWriter, Request >>),
      Endpoint(Func(<< >>, <<errType>>), << >>),
      Endpoint(Func(<< >>, <<errType>>), << ResponseStatus(StatusAccepted) >>),
      Endpoint(Func(<<responseWriterType>>, <<errType>>),
               << ResponseWriter >>),
      Endpoint(Func(<<responseWriterType>>, <<errType>>),
               << ResponseWriter, ResponseStatus(StatusAccepted) >>),
      Endpoint(Func(<<responseWriterType>>, <<errType>>),
               << ResponseStatus(StatusAccepted), ResponseWriter >>),
      \* a value and an error
      Endpoint(Func(<< >>, <<"string", errType>>), << >>),
      Endpoint(Func(<< >>, <<"string", errType>>),
               << ResponseStatus(StatusAccepted) >>),
      Endpoint(Func(<< >>, <<byteSliceType, errType>>), << >>),
      Endpoint(Func(<< >>, <<byteSliceType, errType>>),
               << ResponseStatus(StatusAccepted) >>),
      Endpoint(Func(<< >>, <<"*T", errType>>), << >>),
      Endpoint(Func(<< >>, <<"interface{}", errType>>), << >>),
      Endpoint(Func(<< >>, <<"T", errType>>), << >>),
      Endpoint(Func(<< >>, <<"[]string", errType>>), << >>),
      Endpoint(Func(<<"string">>, <<"*T", errType>>),
               << RequiredQueryParam("q") >>),
      \* return shapes that checkHandler rejects
      Endpoint(Func(<< >>, <<"int">>), << >>),
      Endpoint(Func(<< >>, <<"int", errType>>), << >>),
      Endpoint(Func(<< >>, <<"string", "string">>), << >>),
      Endpoint(Func(<< >>, <<"string", errType, errType>>), << >>) }

RegisterReply ==
    /\ nreg < MaxReplyEndpoints
    /\ \E method \in Methods, e \in ReplyEndpoints :
         AddEndpoint(1, method, NextName, e.handler, e.params)

NextReply ==
    \/ RegisterReply
    \/ Handler
    \/ Serve

SpecReply == Init /\ [][NextReply]_vars

(***************************************************************************)
(* The legacy specification: plain net/http handler functions registered   *)
(* with the provider lists that make them legacy handlers and with lists   *)
(* that do not, and the requests served once Handler() has succeeded.      *)
(***************************************************************************)
LegacyParams ==
    { << >>,
      << ResponseWriter, Request >>,
      << ResponseStatus(StatusOK), ResponseWriter, Request >>,
      << ResponseWriter, ResponseStatus(StatusOK), Request >>,
      << ResponseWriter, Request, ResponseStatus(StatusAccepted) >>,
      << ResponseStatus(StatusAccepted), ResponseWriter, Request >>,
      << ResponseStatus(StatusAccepted) >>,
      << ResponseStatus(StatusOK) >>,
      << Request, ResponseWriter >>,
      << ResponseWriter >>,
      << ResponseWriter, Request, Context >> }

LegacyEndpoints ==
    { Endpoint(Func(<<responseWriterType, fullRequestType>>, << >>), ps) :
        ps \in LegacyParams }
    \cup
    { Endpoint(Func(<<responseWriterType, fullRequestType>>, <<errType>>),
               << ResponseWriter, Request >>),
      Endpoint(Func(<< >>, << >>), << >>) }

RegisterLegacy ==
    /\ nreg < MaxLegacyEndpoints
    /\ \E method \in Methods, e \in LegacyEndpoints :
         AddEndpoint(1, method, NextName, e.handler, e.params)

NextLegacy ==
    \/ RegisterLegacy
    \/ Handler
    \/ Serve
    \/ ServeLegacy

SpecLegacy == Init /\ [][NextLegacy]_vars

(***************************************************************************)
(* The body specification: endpoints whose providers decode or convert     *)
(* what they read from the request, and the requests served once Handler() *)
(* has succeeded.                                                          *)
(***************************************************************************)
BadStructs == {"E1", "E2", "E3", "E4", "E5"}

BodyEndpoints ==
    { Endpoint(Func(<<"*T">>, <<errType>>), << JSONBody("T") >>),
      Endpoint(Func(<<"T">>, <<errType>>), << JSONBodyDirect("T") >>) }
    \cup
    { Endpoint(Func(<<PtrTo(t)>>, << >>), << RequestStruct(t) >>) :
        t \in BadStructs }
    \cup
    { Endpoint(Func(<<t>>, << >>), << RequestStructDirect(t) >>) :
        t \in BadStructs }
    \cup
    { Endpoint(Func(<<PtrTo("RH")>>, <<errType>>), << RequestStruct("RH") >>),
      Endpoint(Func(<<"RH">>, <<errType>>), << RequestStructDirect("RH") >>),
      Endpoint(Func(<<PtrTo("RC")>>, <<errType>>), << RequestStruct("RC") >>),
      Endpoint(Func(<<"string">>, <<errType>>),
               << RequiredHeader("X-Test1") >>) }
    \cup
    LET wrapped == { Header("X-Test1"), RequiredHeader("X-Test1"),
                     QueryParam("q"), ResponseStatus(StatusOK),
                     ByteSliceBody, JSONBody("T") }
    IN  { Endpoint(Func(<<"int">>, <<errType>>), << AsInt(a) >>) :
            a \in wrapped }
        \cup
        { Endpoint(Func(<<byteSliceType>>, <<errType>>),
                   << AsByteSlice(a) >>) : a \in wrapped }
        \cup
        { Endpoint(Func(<<"int", byteSliceType>>, <<errType>>),
                   << AsInt(StringBody), ByteSliceBody >>),
          Endpoint(Func(<<byteSliceType, byteSliceType>>, <<errType>>),
                   << AsByteSlice(StringBody), ByteSliceBody >>) }

RegisterBody ==
    /\ nreg < MaxBodyEndpoints
    /\ \E method \in Methods, e \in BodyEndpoints :
         AddEndpoint(1, method, NextName, e.handler, e.params)

NextBody ==
    \/ RegisterBody
    \/ Handler
    \/ Serve

SpecBody == Init /\ [][NextBody]_vars

(***************************************************************************)
(* The scope specification: Route() scopes nested three deep that declare  *)
(* one or two providers each, and endpoints registered on any scope whose  *)
(* RouteHandler is running, the enclosing ones included (a RouteHandler is *)
(* a closure and can call the routers of the scopes around it).            *)
(***************************************************************************)
RegisterAlias ==
    /\ nreg < MaxAliasEndpoints
    /\ \E r \in 1..Len(routers), method \in Methods,
          params \in { << >>, << Cookie("Test1") >> } :
         /\ Callable(r)
         /\ AddEndpoint(r, method, NextName,
                        Func(<<"string", "string", "string", "string">>,
                             <<errType>>),
                        params)

RouteAlias ==
    /\ Cardinality(Nodes) < MaxAliasNodes
    /\ \E r \in 1..Len(routers),
          params \in { << Header("X-Test1"), Header("X-Test2") >>,
                       << QueryParam("q") >> } :
         Callable(r) /\ RouteBegin(r, NextPattern(routers[r].mux), params)

NextAlias ==
    \/ RegisterAlias
    \/ RouteAlias
    \/ RouteEnd
    \/ Handler

SpecAlias == Init /\ [][NextAlias]_vars

(***************************************************************************)
(* The concurrency specification: two endpoints, and requests to them      *)
(* whose goroutines interleave.                                            *)
(***************************************************************************)
RegisterConc ==
    /\ nreg < MaxConcEndpoints
    /\ \E method \in Methods,
          e \in { Endpoint(Func(<<"string", "string">>, <<errType>>),
                           << RequiredQueryParam("q"),
                              RequiredCookie("Test1") >>),
                  Endpoint(Func(<<"string">>, <<"string", errType>>),
                           << Header("X-Test1") >>) } :
         AddEndpoint(1, method, NextName, e.handler, e.params)

NextConc ==
    \/ RegisterConc
    \/ Handler
    \/ Accept
    \/ \E id \in 1..Len(flights) : Extract(id)
    \/ \E id \in 1..Len(flights) : Call(id)

SpecConc == Init /\ [][NextConc]_vars

(***************************************************************************)
(* Properties of registration.  JoinedParams is the list AddEndpoint       *)
(* joined: the router's inherited providers followed by the endpoint's     *)
(* own.  DeclaredParams is the list the registering code declared: the     *)
(* providers of the enclosing Route() calls, outermost first, followed by  *)
(* the endpoint's own.                                                     *)
(***************************************************************************)
Registered == last.op = "AddEndpoint"

JoinedParams == last.inherited \o last.params

DeclaredParams == routers[last.router].declared \o last.params

Positional(params) ==
    SelectSeq(params, LAMBDA a : has(options(a), flagArgument))

JoinedScan == scanParams(last.name, JoinedParams, 1, ScanInit)

\* the registration went through checkHandler: the handler is not nil, no
\* declaration is invalid and the handler is not installed as legacy handler
Validated ==
    /\ Registered
    /\ ~last.handler.nil
    /\ JoinedScan.err = ""
    /\ ~isLegacyHandler(JoinedScan.returnStatus, JoinedScan.args, last.handler)

\* the handler's parameters match the positional providers in number and type
ParamsMatch ==
    /\ Len(last.handler.in) = Len(Positional(JoinedParams))
    /\ \A i \in 1..Len(last.handler.in) :
         checkArg(Positional(JoinedParams)[i], last.handler.in[i]) = ""

WritesResponse(params) ==
    \E i \in 1..Len(params) : has(options(params[i]), flagWritesResponse)

NumBodyReaders(params) ==
    Cardinality({i \in 1..Len(params) :
                   has(options(params[i]), flagReadsRequestBody)})

Cause(cause) == "endpoint " \o last.name \o ": " \o cause

Recorded(cause) == \E i \in 1..Len(last.errs) : last.errs[i] = Cause(cause)

Failed == last.errs # << >> /\ ~last.installed

LastKey == <<last.method, FullPath(routers[last.router].mux, last.name)>>

ArityCause ==
    "number of arguments of a function doesn't match provided arguments"

\* C1 (as amended): for a function handler that goes through validation,
\* a parameter count different from the number N of positional providers
\* joined (inherited ones first) always records the arity error, whatever
\* the kinds of the providers, and an equal count never does; other checks
\* can still fail the registration.
C1_ArityMismatchFails ==
    (Validated /\ last.handler.kind = "Func") =>
        /\ Len(last.handler.in) # Len(Positional(JoinedParams))
             <=> Recorded(ArityCause)
        /\ Recorded(ArityCause) => Failed

C1_Witness ==
    /\ Validated
    /\ last.handler.kind = "Func"
    /\ last.inherited # << >>
    /\ Len(last.handler.in) # Len(Positional(JoinedParams))
    /\ Recorded(ArityCause)
    /\ Failed

\* C1 as stated: registering a handler function fails if and only if its
\* parameter count differs from N.
C1_FailsIffArityMismatch ==
    (Registered /\ last.handler.kind = "Func") =>
        (last.errs # << >>
            <=> Len(last.handler.in) # Len(Positional(JoinedParams)))

\* C2 as stated: when a registration anywhere in the tree, on a With() copy
\* included, recorded an error, Handler() returns an error and no handler.
C2_AnyErrorFailsHandler ==
    (last.op = "Handler"
       /\ \E r \in 1..Len(routers) : routers[r].errors # << >>)
    => built = "error"

\* C5 as stated: the positional providers bound to an endpoint registered
\* inside Route() scopes are those declared by the enclosing scopes,
\* outermost first, followed by the endpoint's own.
C5_BoundListIsDeclaredList ==
    (Registered /\ last.installed /\ ~routes[LastKey].legacy) =>
        routes[LastKey].arguments = Positional(DeclaredParams)

\* C6 as stated: an endpoint registered through a With() copy is validated
\* and bound as on the router the copy was made from: same inherited
\* providers, same logger.
C6_CopyRegistersAsOriginal ==
    (Registered /\ routers[last.router].origin = "With") =>
        /\ last.inherited
             = Elems(arrays, routers[routers[last.router].of].params)
        /\ routers[last.router].logger
             = routers[routers[last.router].of].logger

\* C7 as stated: an endpoint declared with more than one body-reading
\* provider, inherited ones included, records an error and is not installed.
C7_TwoBodyReadersFail ==
    (Registered /\ NumBodyReaders(DeclaredParams) > 1) => Failed

ErrorTypeCause == "expect an error type in return arguments"

SecondReturnNotError ==
    /\ Registered
    /\ last.handler.kind = "Func"
    /\ Len(last.handler.out) = 2
    /\ ~Implements(last.handler.out[2], errType)

\* C8 (as amended): a handler with two return values of which the second
\* does not implement error always fails registration; the cause is "expect
\* an error type in return arguments" when the handler goes through
\* validation, its parameters match the positional providers and no
\* provider writes the response.
C8_SecondReturnMustBeError ==
    SecondReturnNotError =>
        /\ Failed
        /\ (Validated /\ ParamsMatch /\ ~WritesResponse(JoinedParams))
             => Recorded(ErrorTypeCause)

C8_Witness ==
    /\ SecondReturnNotError
    /\ Positional(JoinedParams) # << >>
    /\ ParamsMatch
    /\ Recorded(ErrorTypeCause)
    /\ Failed

\* C8 as stated: the cause is "expect an error type in return arguments"
\* whatever the providers declared.
C8_ErrorTypeCauseWhateverProviders ==
    SecondReturnNotError => Recorded(ErrorTypeCause)

WriteAndReturnCause == "cannot write response and return response"

Served == resp.served

ServedRoute == routes[resp.key]

RequiredKinds ==
    {"requiredHeaderArgument", "requiredCookieArgument",
     "requiredQueryParamArgument", "requiredPostQueryParamArgument"}

OptionalKinds ==
    {"headerArgument", "cookieArgument", "queryParamArgument",
     "postQueryParamArgument", "urlParamArgument"}

\* the request lacks the field that provider a names
Lacks(a) == ~resp.rq.fields[<<Source(a), a.name>>].present

\* the request does not satisfy provider a: a required field is missing,
\* or empty where the provider reads the value through Get
Unsatisfied(a) ==
    /\ a.kind \in RequiredKinds
    /\ \/ Lacks(a)
       \/ /\ a.kind # "requiredCookieArgument"
          /\ resp.rq.fields[<<Source(a), a.name>>].value = ""

FormParsed == ServedRoute.query => resp.rq.parseFormOK

\* the body of an error response
ErrorBody(status, reason) ==
    "{\"status\":" \o ToString(status) \o ",\"reason\":\"" \o reason
    \o "\"}\n"

\* what the specification calls the kind of a required provider
KindWord(a) ==
    CASE a.kind = "requiredHeaderArgument" -> "header"
      [] a.kind = "requiredCookieArgument" -> "cookie"
      [] a.kind = "requiredQueryParamArgument" -> "query param"
      [] a.kind = "requiredPostQueryParamArgument" -> "post query param"

MissingReason(a) ==
    IF a.kind = "requiredCookieArgument" THEN "missing cookie " \o a.name
    ELSE "missing required " \o KindWord(a) \o " " \o a.name

\* provider i is required, the request lacks its field, and form parsing
\* and the providers before i succeed
FirstLacking(i) ==
    /\ ServedRoute.arguments[i].kind \in RequiredKinds
    /\ Lacks(ServedRoute.arguments[i])
    /\ FormParsed
    /\ \A j \in 1..(i - 1) : ~Unsatisfied(ServedRoute.arguments[j])

\* C3 (as amended): when the request lacks the field of a required
\* provider, and form parsing and the earlier providers succeed, the
\* response is status 400, the handler is not invoked and the body written
\* is {"status":400,"reason":R} plus newline, where R is "missing required
\* header <name>", "missing required query param <name>", "missing
\* required post query param <name>" or, for RequiredCookie, "missing
\* cookie <name>".
C3_RequiredFieldMissing ==
    Served =>
        \A i \in 1..Len(ServedRoute.arguments) :
            FirstLacking(i) =>
                /\ resp.status = StatusBadRequest
                /\ resp.called = 0
                /\ resp.rq.writeOK =>
                     resp.body = ErrorBody(StatusBadRequest,
                                     MissingReason(ServedRoute.arguments[i]))

C3_Witness ==
    /\ Served
    /\ \E i \in 1..Len(ServedRoute.arguments) :
         /\ FirstLacking(i)
         /\ ServedRoute.arguments[i].kind = "requiredCookieArgument"
    /\ resp.status = StatusBadRequest
    /\ resp.called = 0
    /\ resp.body = ErrorBody(StatusBadRequest, "missing cookie Test1")

\* C3 as stated: for every required provider kind the reason is "missing
\* required <kind> <name>".
C3_ReasonIsMissingRequired ==
    Served =>
        \A i \in 1..Len(ServedRoute.arguments) :
            (FirstLacking(i) /\ resp.rq.writeOK) =>
                /\ resp.status = StatusBadRequest
                /\ resp.called = 0
                /\ resp.body =
                     ErrorBody(StatusBadRequest,
                         "missing required "
                         \o KindWord(ServedRoute.arguments[i]) \o " "
                         \o ServedRoute.arguments[i].name)

C10_StringHandlerResponses ==
    ( /\ Served
      /\ ServedRoute.handlerFunc = Func(<< >>, <<"string", errType>>)
      /\ resp.rq.writeOK )
    => /\ (resp.result.err.nil /\ resp.result.value = "")
            => (resp.status = StatusNoContent /\ resp.body = "")
       /\ (resp.result.err.nil /\ resp.result.value # "")
            => (resp.status = StatusOK /\ resp.body = resp.result.value)
       /\ resp.result.err.api
            => /\ resp.status = resp.result.err.errCode
               /\ resp.body = "{\"status\":"
                     \o ToString(resp.result.err.errCode) \o ",\"reason\":"
                     \o jsonString(resp.result.err.reason) \o "}\n"

(***************************************************************************)
(* Properties of the response strategies.                                  *)
(***************************************************************************)
\* the providers and form parsing of the served request succeeded and the
\* handler function was invoked
Invoked == Served /\ resp.called = 1

\* the handler returned a nil error and a non-empty string or byte slice
ReturnedText ==
    /\ Invoked
    /\ ServedRoute.handler \in {"stringErrorHandler", "byteSliceErrorHandler"}
    /\ resp.result.err.nil
    /\ resp.result.value # ""

\* C11 (as amended): for an endpoint with the String or the Bytes
\* strategy, when the handler returns a nil error and a non-empty value,
\* the response has status 200, whatever status is declared for the
\* endpoint, and, the write succeeding, the raw bytes of the value as body.
C11_TextRepliesWith200 ==
    ReturnedText =>
        /\ resp.status = StatusOK
        /\ ~resp.panicked
        /\ resp.rq.writeOK => resp.body = resp.result.value

C11_Witness ==
    /\ ReturnedText
    /\ ServedRoute.handler = "byteSliceErrorHandler"
    /\ ServedRoute.returnStatus = StatusAccepted
    /\ resp.status = StatusOK
    /\ resp.body = "hello"

\* C11 as stated: the response carries the status declared for the
\* endpoint (its ResponseStatus, else its default) and the raw bytes.
C11_TextRepliesWithDeclaredStatus ==
    (ReturnedText /\ resp.rq.writeOK) =>
        /\ resp.status = ServedRoute.returnStatus
        /\ resp.body = resp.result.value

\* the ResponseStatus declarations of a provider list, in order
StatusDeclarations(params) ==
    SelectSeq(params, LAMBDA a : a.kind = "responseStatusArgument")

\* the success status the specification gives an endpoint declared with
\* params
DeclaredStatus(params) ==
    LET ds == StatusDeclarations(params) IN
    IF ds # << >> THEN ds[Len(ds)].status
    ELSE IF WritesResponse(params) THEN StatusOK
    ELSE StatusNoContent

EmptyBodyStrategies == {"noResponseHandler", "errorOnlyHandler"}

\* C12: for an endpoint with the NoResponse or ErrorOnly strategy the
\* status bound at registration, which is the status written when the
\* handler succeeds, is the declared ResponseStatus if one is declared,
\* whatever its position relative to ResponseWriter(), otherwise 200 if a
\* provider writes the response, otherwise 204.
C12_SuccessStatus ==
    /\ ( /\ Registered
         /\ last.installed
         /\ ~routes[LastKey].legacy
         /\ routes[LastKey].handler \in EmptyBodyStrategies )
       => routes[LastKey].returnStatus = DeclaredStatus(JoinedParams)
    /\ ( /\ Invoked
         /\ ServedRoute.handler \in EmptyBodyStrategies
         /\ resp.result.err.nil )
       => /\ resp.status = ServedRoute.returnStatus
          /\ resp.body = ""
          /\ ~resp.panicked

C12_Witness ==
    /\ Invoked
    /\ ServedRoute.handler = "errorOnlyHandler"
    /\ ServedRoute.arguments = << ResponseWriter >>
    /\ resp.result.err.nil
    /\ resp.status = StatusAccepted

JSONStrategies == {"ptrErrorHandler", "structErrorHandler"}

\* the handler of a JSON endpoint was invoked
ReturnedObject == Invoked /\ ServedRoute.handler \in JSONStrategies

\* the status and the reason an error is answered with
StatusOf(err) == IF err.api THEN err.errCode ELSE StatusInternalServerError
ReasonOf(err) == IF err.api THEN err.reason ELSE "unknown"

\* the body of the response to an error
ErrorReply(err) ==
    "{\"status\":" \o ToString(StatusOf(err)) \o ",\"reason\":"
    \o jsonString(ReasonOf(err)) \o "}\n"

\* what encoding/json writes for the values of the model
JSONText(v) ==
    CASE v = Obj("T", "John") -> "{\"Name\":\"John\"}\n"
      [] v = Obj("*T", "John") -> "{\"Name\":\"John\"}\n"
      [] v = Obj("T", "say \"hi\"") -> "{\"Name\":\"say \\\"hi\\\"\"}\n"
      [] v = Obj("[]string", "a") -> "[\"a\"]\n"
      [] OTHER -> "unsupported"

\* C13: for a handler returning (value, error) with value a struct,
\* pointer, interface or slice other than a byte slice: a non-nil error is
\* answered as an error (its status and reason, 500 and "unknown" for an
\* ordinary error); otherwise a nil pointer, interface or slice gives 204
\* and no body; otherwise the value is JSON-encoded into the body, and a
\* value that cannot be encoded gives 500 with the reason "cannot encode
\* response".  Bodies are compared when the write succeeds, error statuses
\* when the error's status is one WriteHeader accepts.
C13_ObjectReplies ==
    ReturnedObject =>
      LET v == resp.result.value
          err == resp.result.err
      IN
      /\ (~err.nil /\ StatusOf(err) \in 100..999)
           => /\ resp.status = StatusOf(err)
              /\ resp.rq.writeOK => resp.body = ErrorReply(err)
      /\ (err.nil /\ v.nil)
           => (resp.status = StatusNoContent /\ resp.body = "")
      /\ (err.nil /\ ~v.nil /\ JSONText(v) # "unsupported" /\ resp.rq.writeOK)
           => (resp.status = StatusOK /\ resp.body = JSONText(v))
      /\ (err.nil /\ ~v.nil /\ JSONText(v) = "unsupported")
           => /\ resp.status = StatusInternalServerError
              /\ resp.rq.writeOK =>
                   resp.body = ErrorBody(StatusInternalServerError,
                                         "cannot encode response")

C13_Witness ==
    /\ ReturnedObject
    /\ ServedRoute.handlerFunc.out[1] = "interface{}"
    /\ resp.result.err.nil
    /\ resp.result.value = Obj("chan int", "")
    /\ resp.status = StatusInternalServerError
    /\ resp.body = "{\"status\":500,\"reason\":\"cannot encode response\"}\n"

(***************************************************************************)
(* Properties of the return-shape classification.                          *)
(***************************************************************************)
\* the last registration reached the return-shape switch of checkHandler:
\* the handler is a function that went through validation and its
\* parameters match the positional providers; nothing else is wrong with
\* the endpoint (one body reader at most) or was wrong with the router
\* before
ShapeClassified ==
    /\ Registered
    /\ Validated
    /\ last.handler.kind = "Func"
    /\ ParamsMatch
    /\ NumBodyReaders(JoinedParams) <= 1
    /\ Len(routers[last.router].errors) = Len(last.errs)

\* the strategy the last registration bound, "" when it bound none
BoundStrategy ==
    IF last.installed THEN routes[LastKey].handler ELSE ""

\* what the specification calls a strategy
StrategyName(handler) ==
    CASE handler = "noResponseHandler" -> "NoResponse"
      [] handler = "errorOnlyHandler" -> "ErrorOnly"
      [] handler = "stringErrorHandler" -> "String"
      [] handler = "byteSliceErrorHandler" -> "Bytes"
      [] handler \in {"ptrErrorHandler", "structErrorHandler"} -> "Struct"
      [] OTHER -> ""

\* the outcome of the classification: a strategy name or a cause of failure
Classified(strategy) ==
    /\ last.errs = << >>
    /\ StrategyName(BoundStrategy) = strategy

Rejected(cause) == ~last.installed /\ last.errs = << Cause(cause) >>

\* C14 (as amended): the classification is total and fixed.  0 returns
\* gives NoResponse; 1 return must implement error and gives ErrorOnly; 2
\* returns with an error-capable second are classified by the first
\* return: string gives String, byte slice gives Bytes, and pointer,
\* interface, struct or a slice other than a byte slice gives Struct;
\* every other first-return kind fails with "unsupported return type" and
\* every other return arity with "invalid number of return arguments".
\* (With a response-writing provider 2 returns fail before they are
\* classified, which is C9.)
C14_ReturnShapes ==
    ShapeClassified =>
      LET out == last.handler.out IN
      CASE Len(out) = 0 -> Classified("NoResponse")
        [] Len(out) = 1 ->
               IF out[1] = "error" THEN Classified("ErrorOnly")
               ELSE Rejected("expect an error type in return arguments")
        [] Len(out) = 2 ->
               IF WritesResponse(JoinedParams)
               THEN Rejected("cannot write response and return response")
               ELSE IF out[2] # "error"
               THEN Rejected("expect an error type in return arguments")
               ELSE IF out[1] = "string" THEN Classified("String")
               ELSE IF out[1] = "[]byte" THEN Classified("Bytes")
               ELSE IF Kind(out[1]) \in {"Ptr", "Interface", "Struct", "Slice"}
               THEN Classified("Struct")
               ELSE Rejected("unsupported return type")
        [] OTHER -> Rejected("invalid number of return arguments")

C14_Witness ==
    /\ ShapeClassified
    /\ last.handler.out = << "[]string", "error" >>
    /\ last.installed
    /\ routes[LastKey].handler = "ptrErrorHandler"

\* C14 as stated: of the first-return kinds only string, byte slice,
\* pointer, interface and struct are classified; every other kind, a
\* slice other than a byte slice included, fails with "unsupported return
\* type".
C14_OnlyListedKindsClassified ==
    (ShapeClassified /\ Len(last.handler.out) = 2
       /\ last.handler.out[2] = "error" /\ ~WritesResponse(JoinedParams))
    => LET out == last.handler.out IN
       IF out[1] = "string" THEN Classified("String")
       ELSE IF out[1] = "[]byte" THEN Classified("Bytes")
       ELSE IF Kind(out[1]) \in {"Ptr", "Interface", "Struct"}
       THEN Classified("Struct")
       ELSE Rejected("unsupported return type")

(***************************************************************************)
(* Properties of error handling.                                           *)
(***************************************************************************)
\* the error the served request was answered for: the one of form parsing
\* or of a provider when the handler was not invoked, else the one the
\* handler returned
RequestError ==
    IF resp.called = 0 THEN getCallAttributes(resp.rq, ServedRoute).err
    ELSE resp.result.err

\* the served request failed with an ordinary error, one that carries no
\* status and reason
OrdinaryFailure == Served /\ ~RequestError.nil /\ ~RequestError.api

\* the calls made on the logger, none without a logger
Logged(calls) ==
    resp.log = IF ServedRoute.logger = "nil" THEN << >> ELSE calls

EncodeFailure ==
    /\ ReturnedObject
    /\ resp.result.err.nil
    /\ ~resp.result.value.nil
    /\ (JSONText(resp.result.value) = "unsupported" \/ ~resp.rq.writeOK)

\* the dispatcher answered the served request with an error
ErrorAnswered == Served /\ (~RequestError.nil \/ EncodeFailure)

\* the error it answered with
AnsweredError ==
    IF ~RequestError.nil THEN RequestError
    ELSE Error(StatusInternalServerError, "", "cannot encode response")

C17_AlwaysAnswers ==
    Served => (~resp.panicked /\ resp.status \in 100..999)

\* C18 as stated: every API error made by Error, Errorf or WrapError
\* carries a valid HTTP status code; the reason of one made by Errorf is
\* "unknown" and the reason of one made by WrapError is the reason given,
\* not the message of the wrapped error.
C18_ApiErrorsWellFormed ==
    (Invoked /\ resp.result.err.api) =>
        LET err == resp.result.err IN
        /\ err.errCode \in 100..599
        /\ err.message = "denied by rule 7" => err.reason = "unknown"
        /\ err.message = "sql: no rows" => err.reason = "no such order"

(***************************************************************************)
(* Properties of Handler().                                                *)
(***************************************************************************)
\* the routers of the Server's own scope: its router and the With() copies
\* made of it
TopRouters == {r \in 1..Len(routers) : routers[r].scope = 1}

\* the Route() nodes opened on a router of the Server's own scope
TopNodes ==
    {r \in 1..Len(routers) :
        /\ routers[r].origin = "Route"
        /\ muxes[routers[r].mux].prefix \in {"/v1", "/v2"}}

\* the messages Handler() joined
Surfaced == {routers[1].errors[j] : j \in 1..Len(routers[1].errors)}

\* C19 as stated, in what it says of the errors recorded in the Server's
\* own scope and one Route() below: once Handler() is called, every error
\* recorded on a router of the Server's scope is one of the messages of
\* the returned error, and every error recorded in a Route() scope is one
\* of them with the prefix "route <pattern>: ".
C19_AllErrorsSurfaced ==
    last.op = "Handler" =>
        /\ \A r \in TopRouters : \A i \in 1..Len(routers[r].errors) :
              /\ built = "error"
              /\ last.errs = << joinErrors(routers[1].errors) >>
              /\ routers[r].errors[i] \in Surfaced
        /\ \A r \in TopNodes : \A i \in 1..Len(routers[r].errors) :
              /\ built = "error"
              /\ ("route " \o muxes[routers[r].mux].prefix \o ": "
                    \o routers[r].errors[i]) \in Surfaced

\* C20: a call of Handler() leaves the routers, their errors, the
\* middlewares and the registered endpoints as they are, and a call that
\* follows another with nothing registered in between has the same
\* outcome: the same error, or a handler over the same routes.
C20_HandlerIdempotent ==
    [][Handler =>
         ( /\ routers' = routers
           /\ arrays' = arrays
           /\ muxes' = muxes
           /\ routes' = routes
           /\ built # "none" => (built' = built /\ last'.errs = last.errs) )
      ]_vars

C20_Witness ==
    /\ last.op = "Handler"
    /\ built = "error"
    /\ stack = << >>
    /\ Len(routers[1].errors) > 0
    /\ last.errs = << joinErrors(routers[1].errors) >>

(***************************************************************************)
(* Legacy handlers.                                                        *)
(***************************************************************************)
\* the provider list of the registration is one of the two that make a
\* net/http handler function a legacy handler
LegacyShape ==
    \/ JoinedParams = << >>
    \/ /\ Positional(JoinedParams) = << ResponseWriter, Request >>
       /\ DeclaredStatus(JoinedParams) = StatusOK

\* what the calls of a handler leave in a response: the status of the
\* first call, the data of the Write calls
RECURSIVE WrittenData(_)
WrittenData(calls) ==
    IF calls = << >> THEN ""
    ELSE (IF Head(calls).op = "Write" THEN Head(calls).data ELSE "")
         \o WrittenData(Tail(calls))

WrittenStatus(calls) ==
    IF calls = << >> THEN 0
    ELSE IF Head(calls).op = "WriteHeader" THEN Head(calls).code
    ELSE StatusOK

\* C21: a handler of type http.HandlerFunc or func(http.ResponseWriter,
\* *http.Request) registered with no providers and no declared status, or
\* with exactly ResponseWriter() then Request() and no declared status
\* other than 200, is installed unmodified as a legacy handler; a request
\* to it gets exactly what the handler wrote, with no extraction, status
\* write, logging or error handling by the framework.  With any other
\* provider list or declared status the handler goes through the normal
\* validation and dispatch.
C21_LegacyHandlers ==
    /\ ( /\ Registered
         /\ IsHTTPHandlerFunc(last.handler)
         /\ JoinedScan.err = "" )
       => IF LegacyShape
          THEN /\ last.installed
               /\ last.errs = << >>
               /\ routes[LastKey].legacy
               /\ routes[LastKey].handlerFunc = last.handler
          ELSE LET ch == checkHandler(last.handler, JoinedScan.args,
                                      JoinedScan.writesResponse)
               IN  /\ last.installed => ~routes[LastKey].legacy
                   /\ last.installed => routes[LastKey].handler = ch.arg
                   /\ ch.err # "" => Recorded(ch.err)
    /\ (Served /\ ServedRoute.legacy)
       => /\ resp.called = 1
          /\ resp.status = WrittenStatus(resp.result)
          /\ resp.rq.writeOK => resp.body = WrittenData(resp.result)
          /\ resp.log = << >>
          /\ ~resp.panicked
    /\ ( /\ Served
         /\ ~ServedRoute.legacy
         /\ IsHTTPHandlerFunc(ServedRoute.handlerFunc) )
       => /\ ServedRoute.handler = "noResponseHandler"
          /\ resp.status = ServedRoute.returnStatus

C21_Witness ==
    /\ Served
    /\ ServedRoute.legacy
    /\ resp.status = StatusMultiStatus
    /\ resp.body = "response to test!"

(***************************************************************************)
(* JSON bodies.                                                            *)
(***************************************************************************)
\* the body is one JSON object whose member, if any, fits T, and nothing
\* else
ValidJSONForT ==
    resp.rq.body \in { << "{", "}" >>, << "{", "\"Name\":\"John\"", "}" >> }

\* the body is a JSON document
ValidJSON ==
    resp.rq.body \in { << "{", "}" >>, << "{", "\"Name\":\"John\"", "}" >>,
                       << "{", "\"Name\":5", "}" >> }

\* C22: for an endpoint registered with JSONBody(T{}) and a handler taking
\* *T, a request whose body is valid JSON for T invokes the handler once
\* with a pointer to a T populated from the body; a request whose body is
\* invalid or truncated JSON does not invoke the handler and is answered
\* with status 400 and {"status":400,"reason":"cannot unmarshal request"}
\* plus newline.
C22_JSONBodyRoundTrip ==
    (Served /\ ServedRoute.arguments = << JSONBody("T") >>) =>
        /\ ValidJSONForT =>
               /\ resp.called = 1
               /\ resp.args = << Obj("*T", "John") >>
        /\ ~ValidJSON =>
               /\ resp.called = 0
               /\ resp.status = StatusBadRequest
               /\ resp.rq.writeOK =>
                      resp.body = ErrorBody(StatusBadRequest,
                                            "cannot unmarshal request")

(***************************************************************************)
(* The order of the steps of a request.                                    *)
(***************************************************************************)
\* the positional providers that the served request does not satisfy
UnsatisfiedArgs ==
    { i \in 1..Len(ServedRoute.arguments) :
        Unsatisfied(ServedRoute.arguments[i]) }

\* the first of them
FirstUnsatisfied ==
    CHOOSE k \in UnsatisfiedArgs : \A j \in UnsatisfiedArgs : k <= j

\* the number of providers whose extraction the request reached
Extracted == getCallAttributes(resp.rq, ServedRoute).reached

\* C23: per request on a non-legacy endpoint form parsing comes first
\* (only if some provider parses the query), then the extraction of the
\* positional providers in declared order, then one invocation of the
\* handler, then the response.  A failure of form parsing or of the k-th
\* provider means that no later provider is extracted, the handler is not
\* invoked and the response is that failure's error response.  The
\* handler is invoked at most once.
C23_StepOrder ==
    Served =>
        /\ resp.called \in {0, 1}
        /\ ~FormParsed =>
              /\ resp.called = 0
              /\ Extracted = 0
              /\ resp.status = StatusBadRequest
              /\ resp.rq.writeOK =>
                    resp.body = ErrorBody(StatusBadRequest,
                                          "could not parse form")
        /\ (FormParsed /\ UnsatisfiedArgs # {}) =>
              /\ resp.called = 0
              /\ Extracted = FirstUnsatisfied
              /\ resp.status = StatusBadRequest
              /\ resp.rq.writeOK =>
                    resp.body =
                      ErrorBody(StatusBadRequest,
                          MissingReason(ServedRoute.arguments[FirstUnsatisfied]))
        /\ (FormParsed /\ UnsatisfiedArgs = {}) =>
              /\ resp.called = 1
              /\ Extracted = Len(ServedRoute.arguments)
              /\ Len(resp.args) = Len(ServedRoute.arguments)
              /\ \A i \in 1..Len(resp.args) :
                    resp.args[i] =
                      resp.rq.fields[<<Source(ServedRoute.arguments[i]),
                                       ServedRoute.arguments[i].name>>].value

C23_Witness ==
    /\ Served
    /\ FormParsed
    /\ UnsatisfiedArgs = {1, 2}
    /\ resp.called = 0
    /\ resp.body = ErrorBody(StatusBadRequest,
                             "missing required query param q")

(***************************************************************************)
(* The outcomes of a registration.                                         *)
(***************************************************************************)
\* the declarations of the registration that are flagged invalid
InvalidParams ==
    { i \in 1..Len(JoinedParams) : has(options(JoinedParams[i]), flagError) }

FirstInvalid == CHOOSE k \in InvalidParams : \A j \in InvalidParams : k <= j

BodyReadersCause == "only one argument can read request's body"

\* the cause checkHandler gives for the registration, "" when it has none
HandlerCause ==
    checkHandler(last.handler, JoinedScan.args, JoinedScan.writesResponse).err

\* the number of errors the scope held before the registration
PriorErrors == Len(routers[last.router].errors) - Len(last.errs)

FieldTrail(t) ==
    CASE t = "E1" -> "(struct field Body) expected string type"
      [] t = "E2" -> "(struct field Body) unsupported tag"
      [] t = "E3" ->
             "(struct field Inner) (struct field Body) expected string type"
      [] t = "E4" -> "(struct field Inner) (struct field Body) unsupported tag"
      [] t = "E5" ->
             "(struct field Deep) (struct field Inner) (struct field Body) "
             \o "expected string type"

\* C25: when RequestStruct or RequestStructDirect is given a struct with
\* a field whose tag kind is unsupported, or whose tagged provider rejects
\* the field's type, the registration fails and the error names the field
\* as "(struct field <Name>)"; for a field inside nested request_struct
\* fields there is one such segment per nesting level, outermost first.
C25_FieldTrail ==
    \A t \in BadStructs :
        ( /\ Registered
          /\ last.params \in { << RequestStruct(t) >>,
                                << RequestStructDirect(t) >> } )
        => /\ ~last.installed
           /\ last.errs = << Cause("(argument 0) " \o FieldTrail(t)) >>

C25_Witness ==
    /\ Registered
    /\ last.params = << RequestStruct("E5") >>
    /\ ~last.installed
    /\ last.errs = << "endpoint /a: (argument 0) (struct field Deep) "
                      \o "(struct field Inner) (struct field Body) "
                      \o "expected string type" >>

(***************************************************************************)
(* Tag kinds and provider constructors.                                    *)
(***************************************************************************)
\* the constructor that the documentation gives as the equivalent of the
\* tag of the struct's tagged field
EquivalentProvider(t) ==
    CASE t = "RH" -> RequiredHeader("X-Test1")
      [] t = "RC" -> RequiredCookie("Test1")

\* the position of the tagged field in the struct
TaggedField(t) == CASE t = "RH" -> 2 [] t = "RC" -> 1

\* C26: for every tag kind of the documented struct-tag grammar, here
\* r_header and r_cookie, a struct field of the expected type carrying
\* the tag registers successfully and at request time receives the same
\* value, or produces the same error response, as the equivalent provider
\* constructor used as a positional argument.
C26_TagKindsAsConstructors ==
    \A t \in {"RH", "RC"} :
        /\ ( /\ Registered
             /\ last.params = << RequestStruct(t) >>
             /\ last.handler = Func(<<PtrTo(t)>>, <<errType>>)
             /\ PriorErrors = 0 )
           => /\ last.installed
              /\ last.errs = << >>
        /\ ( /\ Served
             /\ Len(ServedRoute.arguments) = 1
             /\ ServedRoute.arguments[1].kind = "tagStructArgument"
             /\ ServedRoute.arguments[1].typ = t )
           => LET v == getValue(EquivalentProvider(t), resp.rq, FALSE) IN
              IF v.err.nil
              THEN /\ resp.called = 1
                   /\ resp.args[1].fields[TaggedField(t)] = v.value
              ELSE /\ resp.called = 0
                   /\ resp.status = v.err.errCode
                   /\ resp.rq.writeOK =>
                         resp.body = ErrorBody(v.err.errCode, v.err.reason)

(***************************************************************************)
(* AsInt and AsByteSlice.                                                  *)
(***************************************************************************)
\* the providers that the endpoints of the body specification wrap: the
\* first three are positional providers of a string
StringWrapped == { Header("X-Test1"), RequiredHeader("X-Test1"), QueryParam("q") }

OtherWrapped == { ResponseStatus(StatusOK), ByteSliceBody, JSONBody("T") }

\* the served endpoint's only provider is the conversion conv of provider a
ServedConversion(conv, a) ==
    /\ Served
    /\ Len(ServedRoute.arguments) = 1
    /\ ServedRoute.arguments[1].kind = conv
    /\ ServedRoute.arguments[1].arguments = << a >>

\* the response is the error response of err and the handler is not
\* invoked
Refused(status, reason) ==
    /\ resp.called = 0
    /\ resp.status = status
    /\ resp.rq.writeOK => resp.body = ErrorBody(status, reason)

\* C27: AsInt(p) and AsByteSlice(p) are accepted only when p is a
\* positional provider that validates against the string type, otherwise
\* the registration fails; at request time an extraction error of p is
\* passed on unchanged, AsByteSlice yields the bytes of p's string and
\* AsInt the integer parsed from it, a string that is not a decimal
\* integer, the empty string of an absent optional field included, giving
\* status 400 with reason "integer parse error" without the handler being
\* invoked.  The wrapper keeps p's flags: a wrapped body reader counts as
\* a body reader, a wrapped query provider makes the form be parsed.
C27_Conversions ==
    /\ \A a \in StringWrapped \cup OtherWrapped :
          /\ ( /\ Registered
               /\ last.params = << AsInt(a) >>
               /\ last.handler = Func(<<"int">>, <<errType>>)
               /\ PriorErrors = 0 )
             => IF a \in StringWrapped
                THEN last.installed /\ last.errs = << >>
                ELSE ~last.installed /\ Len(last.errs) = 1
          /\ ( /\ Registered
               /\ last.params = << AsByteSlice(a) >>
               /\ last.handler = Func(<<byteSliceType>>, <<errType>>)
               /\ PriorErrors = 0 )
             => IF a \in StringWrapped
                THEN last.installed /\ last.errs = << >>
                ELSE ~last.installed /\ Len(last.errs) = 1
    /\ ( /\ Registered
         /\ last.params \in { << AsInt(StringBody), ByteSliceBody >>,
                               << AsByteSlice(StringBody), ByteSliceBody >> } )
       => /\ ~last.installed
          /\ Recorded(BodyReadersCause)
    /\ \A a \in StringWrapped :
          LET v == getValue(a, resp.rq, TRUE) IN
          /\ ServedConversion("asIntArgument", a) =>
                /\ ServedRoute.query = (a.kind = "queryParamArgument")
                /\ IF ~FormParsed
                   THEN Refused(StatusBadRequest, "could not parse form")
                   ELSE IF ~v.err.nil
                   THEN Refused(v.err.errCode, v.err.reason)
                   ELSE IF v.value = "42"
                   THEN resp.called = 1 /\ resp.args = << 42 >>
                   ELSE Refused(StatusBadRequest, "integer parse error")
          /\ ServedConversion("asByteSliceArgument", a) =>
                /\ ServedRoute.query = (a.kind = "queryParamArgument")
                /\ IF ~FormParsed
                   THEN Refused(StatusBadRequest, "could not parse form")
                   ELSE IF ~v.err.nil
                   THEN Refused(v.err.errCode, v.err.reason)
                   ELSE /\ resp.called = 1
                        /\ resp.args = << [bytes |-> v.value] >>

C27_Witness ==
    /\ ServedConversion("asIntArgument", Header("X-Test1"))
    /\ ~resp.rq.fields[<<"header", "X-Test1">>].present
    /\ resp.called = 0
    /\ resp.status = StatusBadRequest
    /\ resp.body = ErrorBody(StatusBadRequest, "integer parse error")

(***************************************************************************)
(* The defensive response of handleErrorValue.                             *)
(***************************************************************************)
\* C28: for every endpoint that passed registration and every request and
\* handler result, the dispatcher never answers with status 500 and
\* reason "invalid API construction": the value passed to
\* handleErrorValue is always an error, because registration accepted
\* only handlers whose last return value implements error.
C28_NeverInvalidConstruction ==
    /\ \A key \in DOMAIN routes :
          LET out == routes[key].handlerFunc.out IN
          (~routes[key].legacy /\ Len(out) > 0) =>
              Implements(out[Len(out)], errType)
    /\ Served =>
          ~( /\ resp.status = StatusInternalServerError
             /\ resp.body = ErrorBody(StatusInternalServerError,
                                      "invalid API construction") )

C28_Witness ==
    /\ Invoked
    /\ ServedRoute.handler = "errorOnlyHandler"
    /\ resp.result.err = PlainError("boom")
    /\ resp.status = StatusInternalServerError
    /\ resp.body = ErrorBody(StatusInternalServerError, "unknown")

(***************************************************************************)
(* Concurrent requests.                                                    *)
(***************************************************************************)
\* the goroutine id has answered as the request would be answered alone
AnsweredAsAlone(id) ==
    LET f == flights[id]
        h == handleRequest(routes[f.key], f.rq, f.result)
    IN  /\ f.w = h.w
        /\ f.called = h.called
        /\ f.attribs = h.args

\* the values extracted so far are the values of the goroutine's request
OwnValues(id) ==
    LET f == flights[id] IN
    f.pc = "extract" =>
        \A i \in 1..Len(f.attribs) :
            f.attribs[i] =
              getValue(routes[f.key].arguments[i], f.rq,
                       routes[f.key].query).value

C30_ListsNotAltered ==
    [][/\ \A n \in 1..Len(routers) :
            Elems(arrays', routers'[n].params)
              = Elems(arrays, routers[n].params)
       /\ \A key \in DOMAIN routes :
            \/ /\ last'.op = "AddEndpoint"
               /\ key = <<last'.method,
                          FullPath(routers[last'.router].mux, last'.name)>>
            \/ routes'[key].arguments = routes[key].arguments]_vars

=============================================================================
